---- MODULE Spec2Model ----
(***************************************************************************)
(* Breadboard graph execution engine: the traversal machine               *)
(* (graph-runner/src/traversal/machine.ts), the visit record              *)
(* (traversal/result.ts), the run loop and handler registry composition   *)
(* (breadboard/src/board.ts) and the core / test kit handlers.            *)
(*                                                                         *)
(* Values are integers; a string of characters is a two-digit number, one *)
(* decimal digit per character.  A record of named values (InputValues,   *)
(* OutputValues, NodeConfiguration) is a function from port names to      *)
(* values.                                                                 *)
(***************************************************************************)
EXTENDS Integers, Sequences, FiniteSets, TLC

\* ------------------------------------------------------------------------
\* Bounds of the model
\* ------------------------------------------------------------------------

\* longest linear chain among the boards
MaxChain == 4

\* largest loop threshold among the boards
MaxThreshold == 3

\* how many times Board.run is called for one board: the first run and the
\* runs that continue from a saved result
MaxRuns == 2

\* ------------------------------------------------------------------------
\* Values and records
\* ------------------------------------------------------------------------

\* an edge end that names no port (Edge.in / Edge.out undefined)
NoPort == ""

\* the JavaScript null value
Null == -1

\* the empty record {}
Empty == [p \in {} |-> 0]

\* { ...a, ...b }: keys of b win
Merge(a, b) ==
  [p \in (DOMAIN a) \cup (DOMAIN b) |-> IF p \in DOMAIN b THEN b[p] ELSE a[p]]

\* { [p]: v }
One(p, v) == [q \in {p} |-> v]

Range(s) == {s[i] : i \in DOMAIN s}

\* the elements of s that satisfy Keep, in order
RECURSIVE FilterSeq(_, _)
FilterSeq(s, keep) ==
  IF s = <<>> THEN <<>>
  ELSE IF Head(s) \in keep THEN <<Head(s)>> \o FilterSeq(Tail(s), keep)
       ELSE FilterSeq(Tail(s), keep)

\* s without repeated elements, first occurrences kept in order
RECURSIVE Distinct(_)
Distinct(s) ==
  IF s = <<>> THEN <<>>
  ELSE LET front == Distinct(SubSeq(s, 1, Len(s) - 1))
           last == s[Len(s)]
       IN IF last \in Range(front) THEN front ELSE Append(front, last)

IsPrefix(s, t) == Len(s) <= Len(t) /\ SubSeq(t, 1, Len(s)) = s

\* ------------------------------------------------------------------------
\* Graph descriptors (graph-runner/src/types.ts)
\* ------------------------------------------------------------------------

NodeDescriptor(id, type, configuration) ==
  [id |-> id, type |-> type, configuration |-> configuration]

Edge(from, out, to, in, optional, constant) ==
  [from |-> from, out |-> out, to |-> to, in |-> in,
   optional |-> optional, constant |-> constant]

\* the fake edge that start() makes for an entry node
EntryEdge(entry) == Edge("$entry", NoPort, entry, NoPort, FALSE, FALSE)

\* ------------------------------------------------------------------------
\* GraphRepresentation: heads, tails, nodes, entries
\* ------------------------------------------------------------------------

\* incoming edges of a node, in declaration order
heads(graph, node) ==
  FilterSeq(graph.edges, {e \in Range(graph.edges) : e.to = node})

\* outgoing edges of a node, in declaration order
tails(graph, node) ==
  FilterSeq(graph.edges, {e \in Range(graph.edges) : e.from = node})

\* the ids of the nodes
nodeIds(graph) == {graph.nodes[i].id : i \in DOMAIN graph.nodes}

\* nodes.get(id)
nodes(graph, id) ==
  graph.nodes[CHOOSE i \in DOMAIN graph.nodes : graph.nodes[i].id = id]

\* the nodes without incoming edges, in node order
RECURSIVE entriesOf(_, _)
entriesOf(graph, ns) ==
  IF ns = <<>> THEN <<>>
  ELSE IF heads(graph, Head(ns).id) = <<>>
       THEN <<Head(ns).id>> \o entriesOf(graph, Tail(ns))
       ELSE entriesOf(graph, Tail(ns))

entries(graph) == entriesOf(graph, graph.nodes)

\* ------------------------------------------------------------------------
\* EdgeState: per-edge queues (state) and constant slots (constants)
\* ------------------------------------------------------------------------

\* new MachineEdgeState(): nothing queued, no constant written
MachineEdgeState(graph) ==
  [edges |-> graph.edges,
   state |-> [i \in DOMAIN graph.edges |-> <<>>],
   constants |-> [i \in DOMAIN graph.edges |-> <<>>]]

\* what one edge carries of the outputs: every key for "*", the named key
\* otherwise, nothing for a port the outputs do not have
carried(edge, outputs) ==
  IF edge.out = NoPort THEN <<>>
  ELSE IF edge.out = "*"
       THEN (IF DOMAIN outputs = {} THEN <<>> ELSE <<outputs>>)
       ELSE IF edge.out \in DOMAIN outputs
            THEN <<One(edge.out, outputs[edge.out])>>
            ELSE <<>>

\* update(node, opportunities, outputs): the values the visit of node
\* collected leave their queues, then the outputs are delivered along the
\* node's outgoing edges: a constant edge overwrites its slot, any other
\* edge appends to its queue
update(es, node, opps, outputs) ==
  LET used(i) == IF es.edges[i].to = node /\ es.state[i] # <<>>
                 THEN Tail(es.state[i]) ELSE es.state[i]
      sends(i) == es.edges[i] \in Range(opps)
      new(i) == IF sends(i) THEN carried(es.edges[i], outputs) ELSE <<>>
  IN [edges |-> es.edges,
      state |-> [i \in DOMAIN es.edges |->
                   IF es.edges[i].constant THEN used(i) ELSE used(i) \o new(i)],
      constants |-> [i \in DOMAIN es.edges |->
                   IF es.edges[i].constant /\ new(i) # <<>>
                   THEN new(i) ELSE es.constants[i]]]

\* what edge i has available: its constant slot, else the head of its queue
available(es, i) ==
  IF es.edges[i].constant
  THEN es.constants[i]
  ELSE IF es.state[i] = <<>> THEN <<>> ELSE <<Head(es.state[i])>>

\* getAvailableOutputs(node): for every source, the outputs available to
\* node; reads only
RECURSIVE availableFrom(_, _, _, _)
availableFrom(es, node, from, i) ==
  IF i = 0 THEN Empty
  ELSE LET rest == availableFrom(es, node, from, i - 1)
           e == es.edges[i]
       IN IF e.to = node /\ e.from = from /\ available(es, i) # <<>>
          THEN Merge(rest, available(es, i)[1])
          ELSE rest

getAvailableOutputs(es, node) ==
  [from \in {es.edges[i].from : i \in DOMAIN es.edges} |->
     availableFrom(es, node, from, Len(es.edges))]

\* ------------------------------------------------------------------------
\* TraversalMachine.wire and TraversalMachine.computeMissingInputs
\* ------------------------------------------------------------------------

\* outputEdges.get(from) || {}
outputsOf(outputEdges, from) ==
  IF from \in DOMAIN outputEdges THEN outputEdges[from] ELSE Empty

\* wire that assigns null values too
RECURSIVE wire_nullToo(_, _)
wire_nullToo(hs, outputEdges) ==
  IF hs = <<>> THEN Empty
  ELSE LET result == wire_nullToo(SubSeq(hs, 1, Len(hs) - 1), outputEdges)
           head == hs[Len(hs)]
           outputs == outputsOf(outputEdges, head.from)
           out == head.out
           input == head.in
       IN IF out = NoPort THEN result
          ELSE IF out = "*" THEN Merge(result, outputs)
          ELSE IF input = NoPort THEN result
          ELSE IF out \in DOMAIN outputs
               THEN Merge(result, One(input, outputs[out]))
               ELSE result

\* wire that lets the first edge with a value win
RECURSIVE wire_firstWins(_, _)
wire_firstWins(hs, outputEdges) ==
  IF hs = <<>> THEN Empty
  ELSE LET result == wire_firstWins(Tail(hs), outputEdges)
           head == Head(hs)
           outputs == outputsOf(outputEdges, head.from)
           out == head.out
           input == head.in
       IN IF out = NoPort THEN result
          ELSE IF out = "*" THEN Merge(result, outputs)
          ELSE IF input = NoPort THEN result
          ELSE IF out \in DOMAIN outputs /\ outputs[out] # Null
               THEN Merge(result, One(input, outputs[out]))
               ELSE result

\* TraversalMachine.wire: the inputs of a node from what its incoming edges
\* have available, the edges taken in order
RECURSIVE wire(_, _)
wire(hs, outputEdges) ==
  IF hs = <<>> THEN Empty
  ELSE LET result == wire(SubSeq(hs, 1, Len(hs) - 1), outputEdges)
           head == hs[Len(hs)]
           outputs == outputsOf(outputEdges, head.from)
           out == head.out
           input == head.in
       IN IF out = NoPort THEN result
          ELSE IF out = "*" THEN Merge(result, outputs)
          ELSE IF input = NoPort THEN result
          ELSE IF out \in DOMAIN outputs /\ outputs[out] # Null
               THEN Merge(result, One(input, outputs[out]))
               ELSE result

\* the in names of the non-optional edges, each once
requiredInputs(hs) ==
  LET required == FilterSeq(hs, {e \in Range(hs) : e.in # NoPort /\ ~e.optional})
  IN Distinct([i \in DOMAIN required |-> required[i].in])

\* computeMissingInputs that reports nothing missing
computeMissingInputs_none(hs, inputs, current) == <<>>

\* computeMissingInputs that does not look at the configuration
computeMissingInputs_noConfiguration(hs, inputs, current) ==
  FilterSeq(requiredInputs(hs), Range(requiredInputs(hs)) \ DOMAIN inputs)

computeMissingInputs(hs, inputs, current) ==
  LET inputsWithConfiguration == (DOMAIN inputs) \cup (DOMAIN current.configuration)
  IN FilterSeq(requiredInputs(hs),
               Range(requiredInputs(hs)) \ inputsWithConfiguration)

\* the visit was skipped: some required input is missing (MachineResult.skip)
skip(result) == Len(result.missingInputs) > 0

\* new MachineResult(descriptor, inputs, missingInputs, _, newOpportunities, _);
\* the opportunities and the edge state are shared by all results of a run
\* and are the variables opportunities and es
MachineResult(descriptor, inputs, missingInputs, newOpportunities) ==
  [descriptor |-> descriptor,
   inputs |-> inputs,
   missingInputs |-> missingInputs,
   newOpportunities |-> newOpportunities,
   outputsPromise |-> "none",
   outputs |-> Empty]

\* the result start() hands to the iterator
entryResult == MachineResult(NodeDescriptor("$empty", "$empty", Empty), Empty, <<>>, <<>>)

\* next() that does not wait for the handler result
outputsAvailable_always(result) == TRUE

\* next() can read the outputs of the current visit: no handler result is
\* outstanding for it
outputsAvailable(result) == result.outputsPromise # "pending"

\* next() that goes on after a rejected handler result
throws_never(result) == FALSE

\* reading the outputs of a visit whose handler result rejected throws
throws(result) == result.outputsPromise = "rejected"

\* fromObject that leaves the inputs of the saved result behind
fromObject_noInputs(o, opps, es0) ==
  [result |-> [descriptor |-> o.descriptor,
               inputs |-> Empty,
               missingInputs |-> o.missingInputs,
               newOpportunities |-> o.newOpportunities,
               outputsPromise |-> o.outputsPromise,
               outputs |-> o.outputs],
   opportunities |-> opps,
   state |-> [edges |-> es0.edges, state |-> es0.state, constants |-> es0.constants]]

\* fromObject that leaves the constants of the saved edge state behind
fromObject_noConstants(o, opps, es0) ==
  [result |-> o,
   opportunities |-> opps,
   state |-> [edges |-> es0.edges, state |-> es0.state,
              constants |-> [i \in DOMAIN es0.edges |-> <<>>]]]

\* MachineResult.fromObject: the result a run continues from, with the
\* opportunities and a new edge state that holds the constants and the
\* state of the saved one
fromObject(o, opps, es0) ==
  [result |-> [descriptor |-> o.descriptor,
               inputs |-> o.inputs,
               missingInputs |-> o.missingInputs,
               newOpportunities |-> o.newOpportunities,
               outputsPromise |-> o.outputsPromise,
               outputs |-> o.outputs],
   opportunities |-> opps,
   state |-> [edges |-> es0.edges, state |-> es0.state, constants |-> es0.constants]]

\* next() that does not queue the outgoing edges of a visit
consumeOutputs_none(result, opps, es0) ==
  IF ~skip(result)
  THEN [opportunities |-> opps,
        state |-> update(es0, result.descriptor.id, result.newOpportunities,
                         result.outputs)]
  ELSE [opportunities |-> opps, state |-> es0]

\* next() that queues the outgoing edges of skipped visits too
consumeOutputs_skipped(result, opps, es0) ==
  [opportunities |-> opps \o result.newOpportunities,
   state |-> IF ~skip(result)
             THEN update(es0, result.descriptor.id, result.newOpportunities,
                         result.outputs)
             ELSE es0]

\* next() that puts the outgoing edges in front of the opportunities
consumeOutputs_front(result, opps, es0) ==
  IF ~skip(result)
  THEN [opportunities |-> result.newOpportunities \o opps,
        state |-> update(es0, result.descriptor.id, result.newOpportunities,
                         result.outputs)]
  ELSE [opportunities |-> opps, state |-> es0]

\* next() that updates the edge state for skipped visits too
consumeOutputs_always(result, opps, es0) ==
  [opportunities |-> IF ~skip(result) THEN opps \o result.newOpportunities ELSE opps,
   state |-> update(es0, result.descriptor.id, result.newOpportunities, result.outputs)]

\* next(), first part: the outputs of a visit that was not skipped are
\* consumed: its outgoing edges join the opportunities and the edge state
\* is updated
consumeOutputs(result, opps, es0) ==
  IF ~skip(result)
  THEN [opportunities |-> opps \o result.newOpportunities,
        state |-> update(es0, result.descriptor.id, result.newOpportunities,
                         result.outputs)]
  ELSE [opportunities |-> opps, state |-> es0]

\* next() that lets the configuration overwrite the wired inputs
visit_configurationWins(graph, es0, toNode) ==
  LET currentDescriptor == nodes(graph, toNode)
      incomingEdges == heads(graph, toNode)
      inputs == wire(incomingEdges, getAvailableOutputs(es0, toNode))
  IN MachineResult(currentDescriptor, Merge(inputs, currentDescriptor.configuration),
                   computeMissingInputs(incomingEdges, inputs, currentDescriptor),
                   tails(graph, toNode))

\* next() that takes the incoming edges of the node for its new
\* opportunities
visit_heads(graph, es0, toNode) ==
  LET currentDescriptor == nodes(graph, toNode)
      incomingEdges == heads(graph, toNode)
      inputs == wire(incomingEdges, getAvailableOutputs(es0, toNode))
  IN MachineResult(currentDescriptor, Merge(currentDescriptor.configuration, inputs),
                   computeMissingInputs(incomingEdges, inputs, currentDescriptor),
                   incomingEdges)

\* next(), second part: the visit of the node the opportunity leads to
visit(graph, es0, toNode) ==
  LET currentDescriptor == nodes(graph, toNode)
      incomingEdges == heads(graph, toNode)
      inputs == wire(incomingEdges, getAvailableOutputs(es0, toNode))
      missingInputs == computeMissingInputs(incomingEdges, inputs, currentDescriptor)
      newOpportunities == tails(graph, toNode)
      inputsWithConfiguration == Merge(currentDescriptor.configuration, inputs)
  IN MachineResult(currentDescriptor, inputsWithConfiguration, missingInputs,
                   newOpportunities)

\* ------------------------------------------------------------------------
\* Kits and handlers
\* ------------------------------------------------------------------------

CORE_HANDLERS ==
  <<"lambda", "import", "include", "invoke", "reflect", "slot", "passthrough">>

Handler(kit, type) == [kit |-> kit, type |-> type]

\* a kit: its url and its handlers by node type
Kit(name, url, types) ==
  [name |-> name, url |-> url, handlers |-> [t \in types |-> Handler(name, t)]]

\* new Core(...): one handler for each of CORE_HANDLERS; it has no url
Core == Kit("Core", "", Range(CORE_HANDLERS))

TestKit ==
  Kit("TestKit", ".", {"noop", "test", "include", "invoke", "reverser", "streamer"})

MirrorUniverseKit == Kit("MirrorUniverseKit", "mirror-universe-kit", {"reverser"})

\* the kit of the handlers a board registers with Board.node
LocalKit == Kit("LocalKit", ".", {"counter", "flaky"})

\* a kit made with makeKit for the url of an npm package; its noop returns
\* its inputs
NpmKit == Kit("NpmKit", "npm:kit", {"noop"})

\* Board.handlersFromBoard: kits = [core, ...board.kits], reduced with
\* { ...handlers, ...kit.handlers }
RECURSIVE reduceKits(_)
reduceKits(kits) ==
  IF kits = <<>> THEN Empty
  ELSE Merge(reduceKits(SubSeq(kits, 1, Len(kits) - 1)), kits[Len(kits)].handlers)

handlersFromBoard(b) == reduceKits(<<Core>> \o b.kits)

\* a handler's result: resolved with outputs, or rejected
Resolved(outputs) == [ok |-> TRUE, outputs |-> outputs]
Rejected == [ok |-> FALSE, outputs |-> Empty]

\* Core.passthrough, TestKit.noop, TestKit.test
passthrough(inputs) == {Resolved(inputs)}

\* the characters of a two-character string in reverse order
reverse(v) == (v % 10) * 10 + (v \div 10)

\* the characters of a two-character string in ascending order
sort(v) ==
  LET a == v \div 10
      b == v % 10
  IN IF a <= b THEN v ELSE b * 10 + a

\* TestKit.reverser
reverser(inputs) == {Resolved([p \in DOMAIN inputs |-> reverse(inputs[p])])}

\* MirrorUniverseKit.reverser
mirrorReverser(inputs) == {Resolved([p \in DOMAIN inputs |-> sort(inputs[p])])}

\* Core.invoke and TestKit.invoke for inputs that name no board, graph or
\* path: both throw
invoke(inputs) ==
  IF {"board", "graph", "path"} \cap DOMAIN inputs = {} THEN {Rejected} ELSE {}

\* TestKit.invoke without a board to invoke: it throws; the graph input
\* is not looked at
testInvoke(inputs) ==
  IF "board" \notin DOMAIN inputs THEN {Rejected} ELSE {}

\* TestKit.include without a graph to include: it throws
testInclude(inputs) ==
  IF "graph" \notin DOMAIN inputs THEN {Rejected} ELSE {}

\* the name of a slot, and another name
SlotName == 5
OtherName == 6

\* a graph as a value: the k-th of the graphs that nodes run
GraphValue(k) == 100 + k

\* a BreadboardCapability of kind "board" as a value: its board is the
\* k-th graph with the a-th arguments as args, and is a Board that has
\* runOnce (r = 1) or an object with the properties of one (r = 0)
BoardValue(k, a, r) == 200 + 20 * k + 2 * a + r

isCapability(value) == value >= BoardValue(1, 1, 0)

\* the slots a board is run with, by name
slots == [name \in {SlotName} |-> GraphValue(1)]

\* Core.slot without the name of a slot or with the name of no slot: it
\* throws
slot(inputs) ==
  IF "slot" \notin DOMAIN inputs \/ inputs["slot"] \notin DOMAIN slots
  THEN {Rejected} ELSE {}

\* a locally registered handler that counts: it passes n + 1 on while it is
\* below limit, reports done once it is not, and always emits x; without n
\* the sum is not a number
counter(inputs) ==
  IF {"n", "limit"} \subseteq DOMAIN inputs /\ inputs["n"] + 1 < inputs["limit"]
  THEN {Resolved([p \in {"n", "x"} |-> inputs["n"] + 1])}
  ELSE IF "n" \in DOMAIN inputs
       THEN {Resolved([p \in {"done", "x"} |-> inputs["n"] + 1])}
       ELSE {Resolved([p \in {"done", "x"} |-> Null])}

\* a locally registered handler that may fail
flaky(inputs) == {Resolved(inputs), Rejected}

\* ------------------------------------------------------------------------
\* The boards that are run
\* ------------------------------------------------------------------------

Board(ns, edges, kits) == [nodes |-> ns, edges |-> edges, kits |-> kits]

ChainIds == <<"n1", "n2", "n3", "n4", "n5", "n6", "n7", "n8">>

\* n1 -> n2 -> ... -> nk: n1 emits its configuration, nk is an output node;
\* the edges name the port x, or all ports
Chain(k, port) ==
  Board([i \in 1..k |->
           IF i = 1 THEN NodeDescriptor(ChainIds[i], "passthrough", One("x", 1))
           ELSE IF i = k THEN NodeDescriptor(ChainIds[i], "output", Empty)
           ELSE NodeDescriptor(ChainIds[i], "passthrough", Empty)],
        [i \in 1..(k - 1) |->
           Edge(ChainIds[i], port, ChainIds[i + 1], IF port = "*" THEN NoPort ELSE port,
                FALSE, FALSE)],
        <<>>)

\* S sends key on constant edges to P and Q; T leads to P and Q once more
Fanout(sFirst) ==
  LET S == NodeDescriptor("S", "passthrough", One("key", 7))
      T == NodeDescriptor("T", "passthrough", Empty)
  IN Board((IF sFirst THEN <<S, T>> ELSE <<T, S>>)
             \o <<NodeDescriptor("P", "output", Empty),
                  NodeDescriptor("Q", "output", Empty)>>,
           <<Edge("S", "key", "P", "key", FALSE, TRUE),
             Edge("S", "key", "Q", "key", FALSE, TRUE),
             Edge("T", NoPort, "P", NoPort, FALSE, FALSE),
             Edge("T", NoPort, "Q", NoPort, FALSE, FALSE)>>,
           <<>>)

\* L loops back to itself with the counter n and routes done to the output
\* node once the counter has reached the threshold
Loop(threshold) ==
  Board(<<NodeDescriptor("S", "passthrough", One("n", 0)),
          NodeDescriptor("L", "counter", One("limit", threshold)),
          NodeDescriptor("Out", "output", Empty)>>,
        <<Edge("S", "n", "L", "n", FALSE, FALSE),
          Edge("L", "n", "L", "n", FALSE, FALSE),
          Edge("L", "done", "Out", "result", FALSE, FALSE)>>,
        <<LocalKit>>)

\* L emits x on every run; B needs x and go, and go comes only with the
\* last run of L
Fifo(threshold, constant) ==
  Board(<<NodeDescriptor("S", "passthrough", One("n", 0)),
          NodeDescriptor("L", "counter", One("limit", threshold)),
          NodeDescriptor("B", "output", Empty)>>,
        <<Edge("S", "n", "L", "n", FALSE, FALSE),
          Edge("L", "n", "L", "n", FALSE, FALSE),
          Edge("L", "x", "B", "x", FALSE, FALSE),
          Edge("L", "done", "B", "go", FALSE, constant)>>,
        <<LocalKit>>)

\* B needs y, which A never provides, and a
Needs(configuration, optional) ==
  Board(<<NodeDescriptor("A", "passthrough", One("a", 1)),
          NodeDescriptor("B", "passthrough", configuration),
          NodeDescriptor("Out", "output", Empty)>>,
        <<Edge("A", "y", "B", "y", optional, FALSE),
          Edge("A", "a", "B", "a", FALSE, FALSE),
          Edge("B", "*", "Out", NoPort, FALSE, FALSE)>>,
        <<>>)

\* the caller's input goes through a node of the given type
Typed(type, kits) ==
  Board(<<NodeDescriptor("I", "input", Empty),
          NodeDescriptor("R", type, Empty),
          NodeDescriptor("Out", "output", Empty)>>,
        <<Edge("I", "hello", "R", "hello", FALSE, FALSE),
          Edge("R", "hello", "Out", "text", FALSE, FALSE)>>,
        kits)

\* F may fail; it has a queued and a constant outgoing edge
Flaky ==
  Board(<<NodeDescriptor("A", "passthrough", One("a", 1)),
          NodeDescriptor("F", "flaky", Empty),
          NodeDescriptor("Out", "output", Empty)>>,
        <<Edge("A", "a", "F", "a", FALSE, FALSE),
          Edge("F", "a", "Out", "a", FALSE, FALSE),
          Edge("F", "a", "Out", "k", FALSE, TRUE)>>,
        <<LocalKit>>)

\* an edge to a node that does not exist
Dangling ==
  Board(<<NodeDescriptor("A", "passthrough", One("a", 1))>>,
        <<Edge("A", "a", "ghost", "a", FALSE, FALSE)>>,
        <<>>)

\* X is skipped, for it never gets b, right before the opportunity that
\* leads to a node that does not exist
DanglingAfterSkip ==
  Board(<<NodeDescriptor("A", "passthrough", One("a", 1)),
          NodeDescriptor("X", "passthrough", Empty)>>,
        <<Edge("A", "a", "X", "a", FALSE, FALSE),
          Edge("A", "a", "ghost", "a", FALSE, FALSE),
          Edge("A", "b", "X", "b", FALSE, FALSE)>>,
        <<>>)

\* an edge from a node that does not exist
DanglingFrom ==
  Board(<<NodeDescriptor("A", "passthrough", One("a", 1)),
          NodeDescriptor("B", "passthrough", Empty),
          NodeDescriptor("Out", "output", Empty)>>,
        <<Edge("A", "a", "B", "a", FALSE, FALSE),
          Edge("ghost", "g", "B", "g", FALSE, FALSE),
          Edge("B", "a", "Out", "a", FALSE, FALSE)>>,
        <<>>)

\* A and B both feed the input v of C, with different values
Collide(aFirst) ==
  LET a == Edge("A", "v", "C", "v", FALSE, FALSE)
      b == Edge("B", "v", "C", "v", FALSE, FALSE)
  IN Board(<<NodeDescriptor("A", "passthrough", One("v", 1)),
             NodeDescriptor("B", "passthrough", One("v", 2)),
             NodeDescriptor("C", "output", Empty)>>,
           IF aFirst THEN <<a, b>> ELSE <<b, a>>,
           <<>>)

\* A emits a, which is null, and b; B takes both on named edges
Nullish(optional) ==
  Board(<<NodeDescriptor("A", "passthrough", [p \in {"a", "b"} |-> IF p = "a" THEN Null ELSE 1]),
          NodeDescriptor("B", "passthrough", Empty),
          NodeDescriptor("Out", "output", Empty)>>,
        <<Edge("A", "a", "B", "a", optional, FALSE),
          Edge("A", "b", "B", "b", FALSE, FALSE),
          Edge("B", "*", "Out", NoPort, FALSE, FALSE)>>,
        <<>>)

\* every node has an incoming edge
NoEntry ==
  Board(<<NodeDescriptor("A", "passthrough", Empty),
          NodeDescriptor("B", "passthrough", Empty)>>,
        <<Edge("A", "*", "B", NoPort, FALSE, FALSE),
          Edge("B", "*", "A", NoPort, FALSE, FALSE)>>,
        <<>>)

\* a single node that feeds itself
SelfLoop ==
  Board(<<NodeDescriptor("A", "passthrough", One("a", 1))>>,
        <<Edge("A", "a", "A", "a", FALSE, FALSE)>>,
        <<>>)

\* the caller's input goes to V, which runs a graph; W and its output node
\* are visited besides
Nested(type, configuration, kits) ==
  Board(<<NodeDescriptor("I", "input", Empty),
          NodeDescriptor("W", "passthrough", One("w", 1)),
          NodeDescriptor("V", type, configuration),
          NodeDescriptor("Out", "output", Empty),
          NodeDescriptor("Out2", "output", Empty)>>,
        <<Edge("I", "hello", "V", "hello", FALSE, FALSE),
          Edge("V", "text", "Out", "text", FALSE, FALSE),
          Edge("W", "w", "Out2", "w", FALSE, FALSE)>>,
        kits)

\* the caller's input is passed on, but there is no output node
NoOutput ==
  Board(<<NodeDescriptor("I", "input", Empty),
          NodeDescriptor("R", "passthrough", Empty)>>,
        <<Edge("I", "hello", "R", "hello", FALSE, FALSE)>>,
        <<>>)

ChainBoards == {Chain(k, port) : k \in 2..MaxChain, port \in {"x", "*"}}

FanoutBoards == {Fanout(sFirst) : sFirst \in BOOLEAN}

LoopBoards == {Loop(t) : t \in 1..MaxThreshold}

FifoBoards == {Fifo(t, c) : t \in 1..MaxThreshold, c \in BOOLEAN}

CollideBoards == {Collide(aFirst) : aFirst \in BOOLEAN}

NullishBoards == {Nullish(optional) : optional \in BOOLEAN}

NeedsBoards ==
  {Needs(configuration, optional) :
     configuration \in {Empty, One("y", 5), [p \in {"a", "y"} |-> IF p = "a" THEN 9 ELSE 5]},
     optional \in BOOLEAN}

KitLists ==
  {<<>>, <<TestKit>>, <<TestKit, MirrorUniverseKit>>, <<MirrorUniverseKit, TestKit>>}

TypedBoards ==
  {Typed(type, kits) : type \in {"reverser", "invoke", "passthrough"}, kits \in KitLists}

\* the graphs that nodes run: one that passes its input on, one whose kit
\* is local, one without output node, one without entry, one whose kit is
\* an npm package, one whose kit has a url that is no npm url, one with
\* two output nodes
Graphs ==
  <<Typed("passthrough", <<>>), Typed("reverser", <<TestKit>>), NoOutput, NoEntry,
    Typed("noop", <<NpmKit>>), Typed("reverser", <<MirrorUniverseKit>>), Fanout(TRUE)>>

graphOf(value) == Graphs[value - GraphValue(0)]

NestedBoards ==
  {Nested("invoke", One("graph", GraphValue(k)), <<>>) : k \in DOMAIN Graphs}
    \cup {Nested("include", One("graph", GraphValue(1)), kits) : kits \in {<<>>, <<TestKit>>}}
    \cup {Nested("invoke", One("graph", GraphValue(1)), <<TestKit>>)}
    \cup {Nested("slot", One("slot", name), <<>>) : name \in {SlotName, OtherName}}

\* L makes a capability of a graph, with the hello of W bound to it if
\* bound, and V invokes the capability with the hello of the caller
Lambda(maker, configuration, bound, kits) ==
  Board(<<NodeDescriptor("I", "input", Empty),
          NodeDescriptor("W", "passthrough", One("hello", 34)),
          NodeDescriptor("L", maker, configuration),
          NodeDescriptor("V", "invoke", Empty),
          NodeDescriptor("Out", "output", Empty)>>,
        (IF bound THEN <<Edge("W", "hello", "L", "hello", FALSE, FALSE)>> ELSE <<>>)
          \o <<Edge("L", "board", "V", "board", FALSE, FALSE),
               Edge("I", "hello", "V", "hello", FALSE, FALSE),
               Edge("V", "text", "Out", "text", FALSE, FALSE)>>,
        kits)

LambdaBoards ==
  {Lambda("lambda", One("board", BoardValue(1, 1, 0)), bound, kits) :
     bound \in BOOLEAN, kits \in {<<>>, <<TestKit>>}}
    \cup {Lambda("import", One("graph", GraphValue(1)), bound, <<>>) : bound \in BOOLEAN}

Boards ==
  ChainBoards \cup FanoutBoards \cup LoopBoards \cup FifoBoards \cup NeedsBoards
    \cup TypedBoards \cup NestedBoards \cup LambdaBoards \cup CollideBoards \cup NullishBoards
    \cup {Flaky, Dangling, DanglingAfterSkip, DanglingFrom, NoEntry, SelfLoop}

\* the values a caller supplies at an input node
InputChoices == {Empty, One("hello", 12), One("hello", 21)}

\* the record without the named keys: const { a, b, ...args } = inputs
without(inputs, names) == [p \in (DOMAIN inputs) \ names |-> inputs[p]]

\* ------------------------------------------------------------------------
\* Runnable boards: KitLoader.load, Board.fromGraphDescriptor,
\* Board.fromBreadboardCapability, Core.lambda and Core.import
\* ------------------------------------------------------------------------

\* the kits that import(spec) finds, by url
Modules == [url \in {NpmKit.url} |-> NpmKit]

\* KitLoader.load: a kit with the url "." is left out, a url that is not an
\* npm url throws, and the kit of an npm url is imported
RECURSIVE KitLoader_load(_)
KitLoader_load(kits) ==
  IF kits = <<>> THEN [ok |-> TRUE, kits |-> <<>>]
  ELSE LET rest == KitLoader_load(Tail(kits))
           url == Head(kits).url
       IN IF url = "." THEN rest
          ELSE IF url \notin DOMAIN Modules THEN [ok |-> FALSE, kits |-> <<>>]
          ELSE [ok |-> rest.ok, kits |-> <<Modules[url]>> \o rest.kits]

\* the arguments bound to a board: this.args, none for undefined
NoArgs == Empty

\* Board.fromGraphDescriptor: a new board with the edges and the nodes of
\* the graph and the kits that load; it has no args
fromGraphDescriptor(graph) ==
  LET loaded == KitLoader_load(graph.kits)
  IN [ok |-> loaded.ok,
      board |-> Board(graph.nodes, graph.edges, loaded.kits),
      args |-> NoArgs]

\* the arguments that are bound to boards
BoundArgs == <<Empty, One("hello", 34)>>

\* the a for which BoundArgs[a] = args
argsIndex(args) == CHOOSE a \in DOMAIN BoundArgs : BoundArgs[a] = args

\* Board.fromBreadboardCapability: the board of the capability if it has
\* runOnce, else a board made from it with Board.fromGraphDescriptor
fromBreadboardCapability(value) ==
  LET k == (value - BoardValue(0, 0, 0)) \div 20
      a == ((value - BoardValue(0, 0, 0)) % 20) \div 2
      r == (value - BoardValue(0, 0, 0)) % 2
      runnableBoard == fromGraphDescriptor(graphOf(GraphValue(k)))
  IN IF ~isCapability(value) THEN [ok |-> FALSE, board |-> Board(<<>>, <<>>, <<>>), args |-> NoArgs]
     ELSE IF r = 1 THEN [runnableBoard EXCEPT !.args = BoundArgs[a]]
     ELSE runnableBoard

\* Core.lambda: the capability of its board input with the other inputs as
\* the args of the board, which is a copy of the properties of the
\* runnable board; no graph is run
lambda(inputs) ==
  IF "board" \notin DOMAIN inputs \/ ~isCapability(inputs["board"]) THEN {Rejected}
  ELSE IF ~fromBreadboardCapability(inputs["board"]).ok THEN {Rejected}
  ELSE LET k == (inputs["board"] - BoardValue(0, 0, 0)) \div 20
           args == without(inputs, {"board"})
       IN {Resolved(One("board", BoardValue(k, argsIndex(args), 0)))}

\* Core.import of a graph: the capability of a board made from the graph,
\* with the other inputs as its args; no graph is run
import(inputs) ==
  IF "graph" \notin DOMAIN inputs THEN {Rejected}
  ELSE IF ~fromGraphDescriptor(graphOf(inputs["graph"])).ok THEN {Rejected}
  ELSE LET k == inputs["graph"] - GraphValue(0)
           args == without(inputs, {"path", "$ref", "graph"})
       IN {Resolved(One("board", BoardValue(k, argsIndex(args), 1)))}

\* ------------------------------------------------------------------------
\* Graphs run by the nodes of a graph: Board.runOnce
\* ------------------------------------------------------------------------

\* the descriptor of a node as a value
DescriptorValue == 50


\* the board that a handler runs and the inputs it runs it with, if it
\* runs one: a sequence of at most one element
nests(handler, inputs) ==
  CASE handler = Handler("Core", "invoke") ->
         IF "board" \in DOMAIN inputs
         THEN <<[board |-> fromBreadboardCapability(inputs["board"]),
                 args |-> without(inputs, {"path", "board", "graph"})]>>
         ELSE IF "graph" \in DOMAIN inputs
         THEN <<[board |-> fromGraphDescriptor(graphOf(inputs["graph"])),
                 args |-> without(inputs, {"path", "board", "graph"})]>>
         ELSE <<>>
    [] handler = Handler("Core", "include") ->
         IF "board" \in DOMAIN inputs
         THEN <<[board |-> fromBreadboardCapability(inputs["board"]),
                 args |-> without(inputs, {"path", "$ref", "board", "graph", "slotted"})]>>
         ELSE IF "graph" \in DOMAIN inputs
         THEN <<[board |-> fromGraphDescriptor(graphOf(inputs["graph"])),
                 args |-> without(inputs, {"path", "$ref", "board", "graph", "slotted"})]>>
         ELSE <<>>
    [] handler = Handler("Core", "slot") ->
         IF "slot" \in DOMAIN inputs /\ inputs["slot"] \in DOMAIN slots
         THEN <<[board |-> fromGraphDescriptor(graphOf(slots[inputs["slot"]])),
                 args |-> without(inputs, {"slot"})]>>
         ELSE <<>>
    [] handler = Handler("TestKit", "include") ->
         IF "graph" \in DOMAIN inputs
         THEN <<[board |-> fromGraphDescriptor(graphOf(inputs["graph"])), args |-> inputs]>>
         ELSE <<>>
    [] handler = Handler("TestKit", "invoke") ->
         IF "board" \in DOMAIN inputs
         THEN <<[board |-> fromBreadboardCapability(inputs["board"]),
                 args |-> without(inputs, {"board"})]>>
         ELSE <<>>
    [] OTHER -> <<>>

\* handler(inputs): the results the handler may settle with
handle(handler, inputs) ==
  CASE handler = Handler("Core", "passthrough") -> passthrough(inputs)
    [] handler = Handler("TestKit", "noop") -> passthrough(inputs)
    [] handler = Handler("NpmKit", "noop") -> passthrough(inputs)
    [] handler = Handler("TestKit", "test") -> passthrough(inputs)
    [] handler = Handler("TestKit", "reverser") -> reverser(inputs)
    [] handler = Handler("MirrorUniverseKit", "reverser") -> mirrorReverser(inputs)
    [] handler = Handler("Core", "lambda") -> lambda(inputs)
    [] handler = Handler("Core", "import") -> import(inputs)
    [] handler = Handler("Core", "invoke") -> invoke(inputs)
    [] handler = Handler("TestKit", "invoke") -> testInvoke(inputs)
    [] handler = Handler("Core", "slot") -> slot(inputs)
    [] handler = Handler("TestKit", "include") -> testInclude(inputs)
    [] handler = Handler("LocalKit", "counter") -> counter(inputs)
    [] handler = Handler("LocalKit", "flaky") -> flaky(inputs)
    [] OTHER -> {}

\* no graph is run
NoRun ==
  [status |-> "none", board |-> Board(<<>>, <<>>, <<>>), handlers |-> Empty,
   inputs |-> Empty, args |-> NoArgs, current |-> entryResult, opportunities |-> <<>>,
   state |-> MachineEdgeState(Board(<<>>, <<>>, <<>>)), visits |-> <<>>, outputs |-> Empty]

\* Board.runOnce(inputs) of a runnable board, up to the loop of Board.run:
\* the handlers are collected and the machine is started, which fails
\* without entry
runOnce(b, inputs) ==
  [status |-> IF Len(entries(b.board)) = 0 THEN "error" ELSE "running",
   board |-> b.board,
   handlers |-> handlersFromBoard(b.board),
   inputs |-> inputs,
   args |-> b.args,
   current |-> entryResult,
   opportunities |-> [i \in DOMAIN entries(b.board) |-> EntryEdge(entries(b.board)[i])],
   state |-> MachineEdgeState(b.board),
   visits |-> <<>>,
   outputs |-> Empty]

\* the run of the board a handler call runs, started, or none; a board
\* that cannot be made is the failure of the call
spawn(handler, inputs) ==
  IF nests(handler, inputs) = <<>> THEN NoRun
  ELSE IF ~nests(handler, inputs)[1].board.ok THEN [NoRun EXCEPT !.status = "error"]
  ELSE runOnce(nests(handler, inputs)[1].board, nests(handler, inputs)[1].args)

\* a runOnce that goes on after the first output
runOnceStep_pastOutput(r) ==
  IF throws(r.current) THEN {[r EXCEPT !.status = "error"]}
  ELSE
    LET consumed == consumeOutputs(r.current, r.opportunities, r.state)
    IN IF Len(consumed.opportunities) = 0
       THEN {[r EXCEPT !.status = "done", !.opportunities = consumed.opportunities,
                       !.state = consumed.state]}
       ELSE
         LET toNode == Head(consumed.opportunities).to
             popped == [r EXCEPT !.opportunities = Tail(consumed.opportunities),
                                 !.state = consumed.state]
         IN IF toNode \notin nodeIds(r.board) THEN {[popped EXCEPT !.status = "error"]}
            ELSE
              LET result == visit(r.board, consumed.state, toNode)
                  type == result.descriptor.type
                  visited == [popped EXCEPT !.current = result,
                                            !.visits = Append(r.visits, result)]
              IN IF skip(result) THEN {visited}
                 ELSE IF type = "input"
                 THEN {[visited EXCEPT !.current.outputsPromise = "resolved",
                                       !.current.outputs = Merge(r.inputs, r.args)]}
                 ELSE IF type = "output"
                 THEN {[visited EXCEPT !.outputs = result.inputs]}
                 ELSE IF type \notin DOMAIN r.handlers
                 THEN {[visited EXCEPT !.status = "error"]}
                 ELSE {[visited EXCEPT
                          !.current.outputsPromise =
                             IF settled.ok THEN "resolved" ELSE "rejected",
                          !.current.outputs = settled.outputs] :
                        settled \in handle(r.handlers[type], result.inputs)}

\* one turn of the loop of Board.runOnce: next() and, for the visit it
\* returns, the body of the loops of Board.run and Board.runOnce with the
\* handler result awaited; the inputs of the run with the args of the
\* board over them are the outputs of an input node, and the inputs of the
\* first output node are the outputs of the run, which ends there
runOnceStep(r) ==
  IF throws(r.current) THEN {[r EXCEPT !.status = "error"]}
  ELSE
    LET consumed == consumeOutputs(r.current, r.opportunities, r.state)
    IN IF Len(consumed.opportunities) = 0
       THEN {[r EXCEPT !.status = "done", !.opportunities = consumed.opportunities,
                       !.state = consumed.state]}
       ELSE
         LET toNode == Head(consumed.opportunities).to
             popped == [r EXCEPT !.opportunities = Tail(consumed.opportunities),
                                 !.state = consumed.state]
         IN IF toNode \notin nodeIds(r.board) THEN {[popped EXCEPT !.status = "error"]}
            ELSE
              LET result == visit(r.board, consumed.state, toNode)
                  type == result.descriptor.type
                  visited == [popped EXCEPT !.current = result,
                                            !.visits = Append(r.visits, result)]
              IN IF skip(result) THEN {visited}
                 ELSE IF type = "input"
                 THEN {[visited EXCEPT !.current.outputsPromise = "resolved",
                                       !.current.outputs = Merge(r.inputs, r.args)]}
                 ELSE IF type = "output"
                 THEN {[visited EXCEPT !.status = "done", !.outputs = result.inputs]}
                 ELSE IF type \notin DOMAIN r.handlers
                 THEN {[visited EXCEPT !.status = "error"]}
                 ELSE {[visited EXCEPT
                          !.current.outputsPromise =
                             IF settled.ok THEN "resolved" ELSE "rejected",
                          !.current.outputs = settled.outputs] :
                        settled \in handle(r.handlers[type], result.inputs)}

\* the outputs a listener of the beforehandler event supplies
ProbeOutputs == {Empty, One("hello", 34)}

\* the probes a board is run with: no listener cancels, or a listener
\* cancels the beforehandler event of the listed node types, as a proxy
\* does for the node types it runs elsewhere
Probes(b) ==
  IF b \in TypedBoards THEN {{}, {"reverser"}, {"passthrough", "invoke"}} ELSE {{}}

\* ------------------------------------------------------------------------
\* Input bubbling: RequestedInputsManager, createBubbleHandler and
\* InputSchemaReader
\* ------------------------------------------------------------------------

\* how many input nodes read their inputs in one run
MaxReads == 2

\* the JavaScript undefined value
Undefined == -2

\* the names of the inputs of a schema
Names == {"a", "b"}

\* what a caller or a resolver answers when asked for an input: nothing, or
\* a value
Answers == {Undefined, 7, 8}

\* the schemas of input nodes: the names of the properties in their order,
\* the required ones, and the defaults of those that have one
Schemas ==
  {[names |-> names, required |-> required, default |-> default] :
     names \in {<<>>, <<"a">>, <<"a", "b">>, <<"b", "a">>},
     required \in {{}, {"b"}},
     default \in {Empty, One("a", 9)}}

\* a read that has not begun
IdleReader ==
  [status |-> "idle", reads |-> 0, names |-> <<>>, required |-> {}, default |-> Empty,
   currentOutputs |-> Empty, newOutputs |-> Empty, outputs |-> Empty, error |-> ""]

\* a manager that never finds a value in its cache
cacheGet_never(c, name) == Undefined

\* this.#cache.get(name)
cacheGet(c, name) == IF name \in DOMAIN c THEN c[name] ELSE Undefined

\* the handler of RequestedInputsManager.createHandler, called for name: the
\* cached value if there is one; else the caller is asked, then, if it
\* supplied nothing, the requestInput of the context of the manager, and
\* the value is cached
requestInput(c, ctx, name, callerAnswer, resolverAnswer) ==
  LET cachedValue == cacheGet(c, name)
      value == IF callerAnswer # Undefined THEN callerAnswer
               ELSE IF ctx.requestInput THEN resolverAnswer
               ELSE Undefined
  IN IF cachedValue # Undefined
     THEN [name |-> name, value |-> cachedValue, cache |-> c,
           caller |-> FALSE, resolver |-> FALSE]
     ELSE [name |-> name, value |-> value, cache |-> Merge(c, One(name, value)),
           caller |-> TRUE, resolver |-> (callerAnswer = Undefined /\ ctx.requestInput)]

\* a bubble handler that has no use for the default of the schema
bubbleValue_noDefault(schema, name, value) ==
  IF value = Undefined THEN [thrown |-> TRUE, value |-> Undefined]
  ELSE [thrown |-> FALSE, value |-> value]

\* the handler of createBubbleHandler, after its request for an input that
\* is not required was answered with value: the value, or the default of
\* the schema if there is no value, or an error if there is neither
bubbleValue(schema, name, value) ==
  IF value = Undefined
  THEN IF name \in DOMAIN schema.default
       THEN [thrown |-> FALSE, value |-> schema.default[name]]
       ELSE [thrown |-> TRUE, value |-> Undefined]
  ELSE [thrown |-> FALSE, value |-> value]

\* ------------------------------------------------------------------------
\* One run of a board: Board.run driving the traversal machine
\* ------------------------------------------------------------------------

VARIABLES
  board,          \* the board that is run
  handlers,       \* the handlers of Board.run, by node type
  pc,             \* where the run is: "init", "advance" (before next()),
                  \* "visit" (in the loop body), "input" (suspended at an
                  \* input node), "done", "error"
  current,        \* the current result of the iterator
  opportunities,  \* the opportunities, shared by the results of the run
  edgeState,      \* the edge state, shared by the results of the run
  error,          \* the message of the error that ended the run
  pending,        \* the handler results that have not settled
  visits,         \* history: the results next() returned
  events,         \* history: the probe events and the yielded outputs
  invoked,        \* history: the handlers invoked
  sent,           \* history: per edge, the values delivered on it
  received,       \* history: per edge, the values visits that were not
                  \* skipped collected from it
  runs,           \* history: the number of Board.run calls
  probe,          \* the node types whose beforehandler event a listener of
                  \* the probe cancels
  cache,          \* RequestedInputsManager: the values of the requested inputs
  reader,         \* InputSchemaReader: the read that is under way
  requests,       \* history: the requests for inputs and their answers
  context,        \* the context of the run whose inputs are requested
  worker,         \* Runtime.run: "off", "listening", "yielded" (a RunResult
                  \* is with the caller), "ended"
  results,        \* the RunResults that Runtime.run yielded, as their messages
  replies,        \* history: the calls of RunResult.reply, with what each sent
  original,       \* the runOnce of a board, and the board
  copy,           \* the runOnce of the board made from its serialization
  exchanges,      \* the exchanges of the proxy protocol, by id
  gen             \* asyncGen: the closure of one generator, its iterator, the
                  \* callback and the consumer; <<>> when none is iterated

vars ==
  <<board, handlers, pc, current, opportunities, edgeState, error, pending,
    visits, events, invoked, sent, received, runs, probe, cache, reader, requests,
    context, worker, results, replies, original, copy, exchanges, gen>>

\* the variables of input bubbling
bubble == <<cache, reader, requests, context>>

\* the variables of the runtime of the web page
web == <<worker, results, replies>>

\* the variables of the board that is serialized and made anew
trip == <<original, copy>>

\* the variables that neither the run of a board nor input bubbling touch
outside == <<web, trip, exchanges, gen>>

\* no runtime of the web page
NoWeb ==
  /\ worker = "off"
  /\ results = <<>>
  /\ replies = <<>>

\* no board is serialized
NoTrip ==
  /\ original = [run |-> NoRun, board |-> [ok |-> FALSE]]
  /\ copy = NoRun

\* no exchange of the proxy protocol
NoProxy == exchanges = <<>>

\* no generator is iterated
NoGen == gen = <<>>

history == <<visits, events, invoked, sent, received>>

Event(type, result) ==
  [type |-> type, node |-> result.descriptor.id, inputs |-> result.inputs,
   missingInputs |-> result.missingInputs]

\* an event whose detail has outputs, after its dispatch: canceled tells
\* whether a listener called preventDefault
ProbeEvent(type, result, outputs, canceled) ==
  [type |-> type, node |-> result.descriptor.id, inputs |-> result.inputs,
   missingInputs |-> result.missingInputs, outputs |-> outputs, canceled |-> canceled]

Init ==
  /\ board \in Boards
  /\ handlers = Empty
  /\ pc = "init"
  /\ current = entryResult
  /\ opportunities = <<>>
  /\ edgeState = MachineEdgeState(board)
  /\ error = ""
  /\ pending = {}
  /\ visits = <<>>
  /\ events = <<>>
  /\ invoked = <<>>
  /\ sent = [i \in DOMAIN board.edges |-> <<>>]
  /\ received = [i \in DOMAIN board.edges |-> <<>>]
  /\ runs = 1
  /\ probe \in Probes(board)
  /\ cache = Empty
  /\ reader = IdleReader
  /\ requests = <<>>
  /\ context = [requestInput |-> FALSE]
  /\ NoWeb
  /\ NoTrip
  /\ NoProxy
  /\ NoGen

\* start() that does not look for an entry
start_noEntryCheck ==
  /\ pc = "init"
  /\ handlers' = handlersFromBoard(board)
  /\ pc' = "advance"
  /\ opportunities' = [i \in DOMAIN entries(board) |-> EntryEdge(entries(board)[i])]
  /\ current' = entryResult
  /\ UNCHANGED <<bubble, outside, probe, board, edgeState, error, pending, history, runs>>

\* Board.run up to the loop: the handlers are collected and the machine is
\* started; start() throws when the graph has no entry
start ==
  /\ pc = "init"
  /\ handlers' = handlersFromBoard(board)
  /\ IF Len(entries(board)) = 0
     THEN /\ pc' = "error"
          /\ error' = "No entry node found in graph."
          /\ UNCHANGED opportunities
     ELSE /\ pc' = "advance"
          /\ opportunities' = [i \in DOMAIN entries(board) |-> EntryEdge(entries(board)[i])]
          /\ UNCHANGED error
  /\ current' = entryResult
  /\ UNCHANGED <<bubble, outside, probe, board, edgeState, pending, history, runs>>

\* the values the edges of a visit that was not skipped carry
delivered(result, i) ==
  IF ~skip(result) /\ board.edges[i] \in Range(result.newOpportunities)
  THEN carried(board.edges[i], result.outputs)
  ELSE <<>>

\* TraversalMachineIterator.next
TraversalMachineIterator_next ==
  /\ pc = "advance"
  /\ outputsAvailable(current)
  /\ IF throws(current)
     THEN /\ pc' = "error"
          /\ error' = "handler"
          /\ UNCHANGED <<current, opportunities, edgeState, history>>
     ELSE \E consumed \in {consumeOutputs(current, opportunities, edgeState)} :
             /\ edgeState' = consumed.state
             /\ sent' = [i \in DOMAIN sent |-> sent[i] \o delivered(current, i)]
             /\ IF Len(consumed.opportunities) = 0
                THEN /\ pc' = "done"
                     /\ opportunities' = consumed.opportunities
                     /\ UNCHANGED <<current, error, visits, received>>
                ELSE LET opportunity == Head(consumed.opportunities)
                         toNode == opportunity.to
                     IN /\ opportunities' = Tail(consumed.opportunities)
                        /\ IF toNode \notin nodeIds(board)
                           THEN /\ pc' = "error"
                                /\ error' = "No node found for id"
                                /\ UNCHANGED <<current, visits, received>>
                           ELSE \E result \in {visit(board, consumed.state, toNode)} :
                                   /\ pc' = "visit"
                                   /\ current' = result
                                   /\ visits' = Append(visits, result)
                                   /\ received' =
                                        [i \in DOMAIN received |->
                                           IF ~skip(result) /\ board.edges[i].to = toNode
                                           THEN received[i] \o available(consumed.state, i)
                                           ELSE received[i]]
                                   /\ UNCHANGED error
  /\ UNCHANGED <<bubble, outside, probe, board, handlers, pending, events, invoked, runs>>

\* Board.run that ends the run with an error at a skipped visit
run_skip_throws ==
  /\ pc = "visit"
  /\ skip(current)
  /\ pc' = "error"
  /\ error' = "Missing input"
  /\ UNCHANGED <<bubble, outside, probe, board, handlers, current, opportunities, edgeState, pending,
                 history, runs>>

\* Board.run, a skipped visit: the skip event, then the next step
run_skip ==
  /\ pc = "visit"
  /\ skip(current)
  /\ events' = Append(events, Event("skip", current))
  /\ pc' = "advance"
  /\ UNCHANGED <<bubble, outside, probe, board, handlers, current, opportunities, edgeState, error,
                 pending, visits, invoked, sent, received, runs>>

\* Board.run, an input node: the run is suspended for the caller
run_input ==
  /\ pc = "visit"
  /\ ~skip(current)
  /\ current.descriptor.type = "input"
  /\ pc' = "input"
  /\ UNCHANGED <<bubble, outside, probe, board, handlers, current, opportunities, edgeState, error,
                 pending, history, runs>>

\* resuming that leaves the values of the caller behind
resume_withoutInputs ==
  /\ pc = "input"
  /\ \E inputs \in InputChoices :
       /\ current' = [current EXCEPT !.outputsPromise = "resolved", !.outputs = Empty]
       /\ events' = Append(events, ProbeEvent("input", current, inputs, FALSE))
  /\ pc' = "advance"
  /\ UNCHANGED <<bubble, outside, probe, board, handlers, opportunities, edgeState, error, pending,
                 visits, invoked, sent, received, runs>>

\* the caller supplies the inputs, which are the outputs of the visit, and
\* resumes the run; the input event has the outputs
resume ==
  /\ pc = "input"
  /\ \E inputs \in InputChoices :
       /\ current' = [current EXCEPT !.outputsPromise = "resolved", !.outputs = inputs]
       /\ events' = Append(events, ProbeEvent("input", current, inputs, FALSE))
  /\ pc' = "advance"
  /\ UNCHANGED <<bubble, outside, probe, board, handlers, opportunities, edgeState, error, pending,
                 visits, invoked, sent, received, runs>>

\* Board.run, an output node: the inputs of the visit are yielded
run_output ==
  /\ pc = "visit"
  /\ ~skip(current)
  /\ current.descriptor.type = "output"
  /\ events' = Append(events, Event("output", current))
  /\ pc' = "advance"
  /\ UNCHANGED <<bubble, outside, probe, board, handlers, current, opportunities, edgeState, error,
                 pending, visits, invoked, sent, received, runs>>

\* Board.run that goes on when there is no handler for the type of a node
run_noHandler_continues ==
  /\ pc = "visit"
  /\ ~skip(current)
  /\ current.descriptor.type \notin {"input", "output"}
  /\ current.descriptor.type \notin DOMAIN handlers
  /\ pc' = "advance"
  /\ UNCHANGED <<bubble, outside, probe, board, handlers, current, opportunities, edgeState, error, pending,
                 history, runs>>

\* Board.run, a node of a type without handler
run_noHandler ==
  /\ pc = "visit"
  /\ ~skip(current)
  /\ current.descriptor.type \notin {"input", "output"}
  /\ current.descriptor.type \notin DOMAIN handlers
  /\ pc' = "error"
  /\ error' = "No handler for node type"
  /\ UNCHANGED <<bubble, outside, probe, board, handlers, current, opportunities, edgeState, pending, history, runs>>

\* Board.run that invokes the handler whatever the listeners did
shouldInvokeHandler_always(canceled) == TRUE

\* probe.dispatchEvent(beforehandler): false when a listener cancelled it
shouldInvokeHandler(canceled) == ~canceled

\* Board.run, any other node: the beforehandler event is dispatched; unless
\* a listener cancelled it the handler is invoked with the inputs, and its
\* result, or else the outputs the listener supplied, is stored in the visit
run_handler ==
  /\ pc = "visit"
  /\ ~skip(current)
  /\ current.descriptor.type \notin {"input", "output"}
  /\ current.descriptor.type \in DOMAIN handlers
  /\ LET handler == handlers[current.descriptor.type]
         inputs == IF current.descriptor.type \in {"include", "slot"}
                   THEN Merge(current.inputs, One("parent", DescriptorValue))
                   ELSE current.inputs
         result == [current EXCEPT !.inputs = inputs]
         call == [visit |-> Len(visits), handler |-> handler,
                  node |-> current.descriptor.id, inputs |-> inputs,
                  sub |-> spawn(handler, inputs)]
         canceled == current.descriptor.type \in probe
     IN \E supplied \in (IF probe = {} THEN {Empty} ELSE ProbeOutputs) :
          /\ events' = Append(events, ProbeEvent("beforehandler", result, supplied, canceled))
          /\ IF shouldInvokeHandler(canceled)
             THEN /\ invoked' = Append(invoked, call)
                  /\ pending' = pending \cup {call}
                  /\ current' = [result EXCEPT !.outputsPromise = "pending"]
             ELSE /\ current' = [result EXCEPT !.outputsPromise = "resolved",
                                               !.outputs = supplied]
                  /\ UNCHANGED <<invoked, pending>>
  /\ pc' = "advance"
  /\ UNCHANGED <<bubble, outside, probe, board, handlers, opportunities, edgeState, error, visits, sent, received, runs>>

\* a graph that a handler runs takes a step on the opportunities of the
\* run that invoked the handler
runOnce_step_sharedOpportunities ==
  /\ \E call \in pending :
       /\ call.sub.status = "running"
       /\ \E sub \in runOnceStep(call.sub) :
            /\ pending' = (pending \ {call}) \cup {[call EXCEPT !.sub = sub]}
            /\ opportunities' = sub.opportunities
  /\ UNCHANGED <<bubble, outside, probe, board, handlers, pc, current, edgeState,
                 error, history, runs>>

\* a graph that a handler runs takes a step
runOnce_step ==
  /\ \E call \in pending :
       /\ call.sub.status = "running"
       /\ \E sub \in runOnceStep(call.sub) :
            pending' = (pending \ {call}) \cup {[call EXCEPT !.sub = sub]}
  /\ UNCHANGED <<bubble, outside, probe, board, handlers, pc, current, opportunities, edgeState,
                 error, history, runs>>

\* a handler that settles while the graph it runs is running
settles_early(call) ==
  IF call.sub.status = "none" THEN handle(call.handler, call.inputs)
  ELSE IF call.sub.status = "error" THEN {Rejected}
  ELSE {Resolved(call.sub.outputs)}

\* the results a handler call may settle with: those of the handler, or,
\* if it runs a graph, the outputs of the run once it has ended and a
\* rejection if it has failed
settles(call) ==
  IF call.sub.status = "none" THEN handle(call.handler, call.inputs)
  ELSE IF call.sub.status = "done" THEN {Resolved(call.sub.outputs)}
  ELSE IF call.sub.status = "error" THEN {Rejected}
  ELSE {}

\* a handler result settles: it resolves with outputs or rejects
settle ==
  /\ \E call \in pending :
       /\ pending' = pending \ {call}
       /\ \E result \in settles(call) :
            IF call.visit = Len(visits)
            THEN current' = [current EXCEPT
                               !.outputsPromise = IF result.ok THEN "resolved" ELSE "rejected",
                               !.outputs = result.outputs]
            ELSE UNCHANGED current
  /\ UNCHANGED <<bubble, outside, probe, board, handlers, pc, opportunities, edgeState, error, history, runs>>

\* Board.run is called again with the result of a run that was suspended at
\* an input or an output node: the machine continues from that result
run_again ==
  /\ pc = "advance"
  /\ ~skip(current)
  /\ current.descriptor.type \in {"input", "output"}
  /\ runs < MaxRuns
  /\ runs' = runs + 1
  /\ handlers' = handlersFromBoard(board)
  /\ LET previousResult == fromObject(current, opportunities, edgeState)
     IN /\ current' = previousResult.result
        /\ opportunities' = previousResult.opportunities
        /\ edgeState' = previousResult.state
  /\ UNCHANGED <<bubble, outside, probe, board, pc, error, pending, history>>

Next ==
  \/ start
  \/ run_again
  \/ TraversalMachineIterator_next
  \/ run_skip
  \/ run_input
  \/ resume
  \/ run_output
  \/ run_noHandler
  \/ run_handler
  \/ runOnce_step
  \/ settle

Spec == Init /\ [][Next]_vars

\* ------------------------------------------------------------------------
\* Input bubbling in one run: the input nodes of a graph that a handler
\* runs read their inputs, and what is missing is requested from the run
\* that invoked the handler
\* ------------------------------------------------------------------------

\* the variables of the run of a board
run ==
  <<board, handlers, pc, current, opportunities, edgeState, error, pending,
    visits, events, invoked, sent, received, runs, probe>>

\* neither a board is run nor inputs are bubbled
Still ==
  /\ board = NoEntry
  /\ handlers = Empty
  /\ pc = "init"
  /\ current = entryResult
  /\ opportunities = <<>>
  /\ edgeState = MachineEdgeState(board)
  /\ error = ""
  /\ pending = {}
  /\ visits = <<>>
  /\ events = <<>>
  /\ invoked = <<>>
  /\ sent = [i \in DOMAIN board.edges |-> <<>>]
  /\ received = [i \in DOMAIN board.edges |-> <<>>]
  /\ runs = 1
  /\ probe = {}
  /\ cache = Empty
  /\ reader = IdleReader
  /\ requests = <<>>
  /\ context = [requestInput |-> FALSE]

InitBubble ==
  /\ board = NoEntry
  /\ handlers = Empty
  /\ pc = "init"
  /\ current = entryResult
  /\ opportunities = <<>>
  /\ edgeState = MachineEdgeState(board)
  /\ error = ""
  /\ pending = {}
  /\ visits = <<>>
  /\ events = <<>>
  /\ invoked = <<>>
  /\ sent = [i \in DOMAIN board.edges |-> <<>>]
  /\ received = [i \in DOMAIN board.edges |-> <<>>]
  /\ runs = 1
  /\ probe = {}
  /\ cache = Empty
  /\ reader = IdleReader
  /\ requests = <<>>
  /\ context \in [requestInput : BOOLEAN]
  /\ NoWeb
  /\ NoTrip
  /\ NoProxy
  /\ NoGen

\* bubbleUpInputsIfNeeded: without requestInput in the context of the
\* graph the outputs of the input node stay as they are; else they are read
\* with the schema of the node, and without schema or properties they stay
\* as they are, too
bubbleUpInputsIfNeeded ==
  /\ reader.status \in {"idle", "returned"}
  /\ reader.reads < MaxReads
  /\ \E schema \in Schemas, outputs \in {Empty, One("a", 7)}, hasRequestInput \in BOOLEAN :
       reader' =
         [status |-> IF hasRequestInput /\ schema.names # <<>> THEN "reading" ELSE "returned",
          reads |-> reader.reads + 1,
          names |-> schema.names,
          required |-> schema.required,
          default |-> schema.default,
          currentOutputs |-> outputs,
          newOutputs |-> Empty,
          outputs |-> outputs,
          error |-> ""]
  /\ UNCHANGED <<run, outside, cache, requests, context>>

\* InputSchemaReader.read, one property: an output that is there is kept;
\* a missing required one is an error of the bubble handler; any other
\* is requested, and the answer, or else the default, is its value
InputSchemaReader_read ==
  /\ reader.status = "reading"
  /\ reader.names # <<>>
  /\ LET name == Head(reader.names)
         rest == [reader EXCEPT !.names = Tail(reader.names)]
     IN IF name \in DOMAIN reader.currentOutputs
        THEN /\ reader' = [rest EXCEPT !.newOutputs =
                                          Merge(@, One(name, reader.currentOutputs[name]))]
             /\ UNCHANGED <<cache, requests>>
        ELSE IF name \in reader.required
        THEN /\ reader' = [rest EXCEPT !.status = "thrown", !.error = name]
             /\ UNCHANGED <<cache, requests>>
        ELSE \E callerAnswer \in Answers, resolverAnswer \in Answers :
               LET request == requestInput(cache, context, name, callerAnswer, resolverAnswer)
                   answer == bubbleValue(reader, name, request.value)
               IN /\ cache' = request.cache
                  /\ requests' = Append(requests, request)
                  /\ reader' = IF answer.thrown
                                THEN [rest EXCEPT !.status = "thrown", !.error = name]
                                ELSE [rest EXCEPT !.newOutputs =
                                                    Merge(@, One(name, answer.value))]
  /\ UNCHANGED <<run, outside, context>>

\* InputSchemaReader.read, after the last property: the outputs of the
\* input node are the current ones with the new ones over them
read_return ==
  /\ reader.status = "reading"
  /\ reader.names = <<>>
  /\ reader' = [reader EXCEPT !.status = "returned",
                              !.outputs = Merge(reader.currentOutputs, reader.newOutputs)]
  /\ UNCHANGED <<run, outside, cache, requests, context>>

NextBubble ==
  \/ bubbleUpInputsIfNeeded
  \/ InputSchemaReader_read
  \/ read_return

BubbleSpec == InitBubble /\ [][NextBubble]_vars

\* ------------------------------------------------------------------------
\* The runtime of the web page: Runtime.run yields a RunResult for each
\* message of the worker, and the caller answers with RunResult.reply
\* ------------------------------------------------------------------------

MaxMessages == 2
MaxReplies == 2

\* the messages of the worker: one that awaits a reply carries an id
MessageIds == {Undefined, 1, 2}
MessageTypes == {"input", "end"}
MessageData == {Undefined, 7}
ControllerMessages == [id : MessageIds, type : MessageTypes, data : MessageData]

\* what the caller replies with
ReplyData == {8, 9}

\* RunResult.reply that replies to a message without id, too
reply_withoutId(message, data) ==
  <<[id |-> message.id, data |-> data, type |-> message.type]>>

\* RunResult.reply: the messages that controller.reply is called with
reply(message, data) ==
  IF message.id = Undefined
  THEN <<>>
  ELSE <<[id |-> message.id, data |-> data, type |-> message.type]>>

\* the variables that the runtime of the web page leaves alone
notWeb == <<run, bubble, trip, exchanges, gen>>

\* the state in which only the runtime of the web page acts
InitRuntime ==
  /\ Still
  /\ NoWeb
  /\ NoTrip
  /\ NoProxy
  /\ NoGen

\* Runtime.run, up to the loop: the worker is made and told to start
Runtime_run ==
  /\ worker = "off"
  /\ worker' = "listening"
  /\ UNCHANGED <<notWeb, results, replies>>

\* Runtime.run, the loop up to yield: the message is yielded as a RunResult
Runtime_run_listen ==
  /\ worker = "listening"
  /\ Len(results) < MaxMessages
  /\ \E message \in ControllerMessages :
       results' = Append(results, message)
  /\ worker' = "yielded"
  /\ UNCHANGED <<notWeb, replies>>

\* Runtime.run, the loop after yield: an end message with data ends it
Runtime_run_continue ==
  /\ worker = "yielded"
  /\ LET message == results[Len(results)]
     IN worker' = IF message.data # Undefined /\ message.type = "end"
                   THEN "ended"
                   ELSE "listening"
  /\ UNCHANGED <<notWeb, results, replies>>

\* the caller calls reply of a RunResult that it holds, at any time
RunResult_reply ==
  /\ Len(replies) < MaxReplies
  /\ \E k \in DOMAIN results, data \in ReplyData :
       replies' = Append(replies, [to |-> k, data |-> data,
                                   sent |-> reply(results[k], data)])
  /\ UNCHANGED <<notWeb, worker, results>>

NextRuntime ==
  \/ Runtime_run
  \/ Runtime_run_listen
  \/ Runtime_run_continue
  \/ RunResult_reply

RuntimeSpec == InitRuntime /\ [][NextRuntime]_vars

\* ------------------------------------------------------------------------
\* A board and the board made anew from its serialization, run with the
\* same inputs
\* ------------------------------------------------------------------------

\* the inputs of the two runs
TripInputs == {Empty, One("hello", 12)}

\* the boards that are serialized, with the args bound to them
TripBoards ==
  {[ok |-> TRUE, board |-> Graphs[k], args |-> args] :
     k \in DOMAIN Graphs, args \in Range(BoundArgs)}

\* the GraphDescriptor of a board, as JSON: its nodes, its edges, its args
\* and a KitDescriptor with the url of each kit
serialize(b) ==
  [nodes |-> b.board.nodes,
   edges |-> b.board.edges,
   kits |-> [i \in DOMAIN b.board.kits |-> [url |-> b.board.kits[i].url]],
   args |-> b.args]

\* the variables that the two runs leave alone
notTrip == <<run, bubble, web, exchanges, gen>>

InitTrip ==
  /\ Still
  /\ NoWeb
  /\ NoProxy
  /\ \E b \in TripBoards, inputs \in TripInputs :
       /\ original = [run |-> runOnce(b, inputs), board |-> b]
       /\ copy = NoRun
  /\ NoGen

\* Board.fromGraphDescriptor of the serialized board and runOnce of the
\* board it makes, with the inputs of the original
Board_fromGraphDescriptor ==
  /\ copy.status = "none"
  /\ LET made == fromGraphDescriptor(serialize(original.board))
     IN copy' = IF made.ok
                 THEN runOnce(made, original.run.inputs)
                 ELSE [NoRun EXCEPT !.status = "error"]
  /\ UNCHANGED <<notTrip, original>>

\* a turn of the loop of runOnce of the original
original_runOnce ==
  /\ original.run.status = "running"
  /\ \E r \in runOnceStep(original.run) : original' = [original EXCEPT !.run = r]
  /\ UNCHANGED <<notTrip, copy>>

\* a turn of the loop of runOnce of the board made anew
copy_runOnce ==
  /\ copy.status = "running"
  /\ copy' \in runOnceStep(copy)
  /\ UNCHANGED <<notTrip, original>>

NextTrip ==
  \/ Board_fromGraphDescriptor
  \/ original_runOnce
  \/ copy_runOnce

TripSpec == InitTrip /\ [][NextTrip]_vars

\* ------------------------------------------------------------------------
\* The proxy protocol: a server runs a board for a client and hands the
\* visits of the proxied node types to it, and a proxy server runs one
\* handler for a proxy client; each exchange has its own transport
\* ------------------------------------------------------------------------

MaxExchanges == 2

ExchangeIds == 1..MaxExchanges

\* a message of a response stream
Message(type, node, values) == [type |-> type, node |-> node, values |-> values]

\* OutputResponse { node, outputs }
OutputResponse(result) == Message("output", result.descriptor.id, result.inputs)

\* BeforehandlerResponse { node }
BeforehandlerResponse(result) == Message("beforehandler", result.descriptor.id, Empty)

\* InputPromiseResponse { node, inputArguments }
InputPromiseResponse(result) == Message("input", result.descriptor.id, result.inputs)

\* ProxyPromiseResponse { node, inputs }
ProxyPromiseResponse(result) == Message("proxy", result.descriptor.id, result.inputs)

\* ProxyResponse { outputs }
ProxyResponse(node, outputs) == Message("proxy", node, outputs)

\* EndResponse {}
EndResponse == Message("end", "", Empty)

\* ErrorResponse { error }
ErrorResponse == Message("error", "", Empty)

\* a proxy message that does not end the response stream
last_notProxy(type) == type \in {"input", "error", "end"}

\* the messages that can only be the last of a response stream
last(type) == type \in {"input", "proxy", "error", "end"}

\* the server writes a message to the response stream of the exchange; a
\* message that can only be the last one ends the stream
send(x, message) ==
  IF last(message.type)
  THEN [x EXCEPT !.streams = Append(@, Append(x.stream, message)), !.stream = <<>>]
  ELSE [x EXCEPT !.stream = Append(@, message)]

\* what the client supplies for an input node, and what its own handler
\* gives for a proxied node
ClientInputs == {One("hello", 12)}
ClientOutputs == {One("hello", 43)}

\* the nodes a proxy client asks a proxy server to run, and their inputs
ProxiedTypes == {"noop", "reverser", "other"}
ProxiedInputs == {One("hello", 12)}

\* the run of a board by the server: Board.run, at its start
serverRun(b) == runOnce([ok |-> TRUE, board |-> b, args |-> NoArgs], Empty)

\* an exchange that has not begun: a run of a board with its list of
\* proxied node types, or the run of one node by a proxy server
Exchange(kind, b, proxyNodes) ==
  [kind |-> kind,
   status |-> "open",
   proxyNodes |-> proxyNodes,
   run |-> serverRun(b),
   requests |-> <<>>,
   stream |-> <<>>,
   streams |-> <<>>,
   invoked |-> <<>>,
   proxied |-> <<>>,
   failed |-> FALSE,
   peers |-> {},
   returned |-> <<>>]

Exchanges ==
  {Exchange("run", Typed("reverser", <<TestKit>>), proxyNodes) :
     proxyNodes \in {{}, {"reverser"}}}
    \cup {Exchange("run", Typed("reverser", <<>>), {"reverser"}),
          Exchange("run", Flaky, {}),
          Exchange("proxy", Board(<<>>, <<>>, <<TestKit>>), {})}

\* the server ends the exchange with an error
fail(x) == [send(x, ErrorResponse) EXCEPT !.status = "closed", !.run.status = "error"]

\* one turn of the loop of the server's Board.run: next() and, for the
\* visit it returns, the messages of the server; a node type without
\* handler ends the run, and the visit of a proxied node type is not handed
\* to the handler but sent to the client
RunServer_step(x) ==
  LET r == x.run
  IN IF throws(r.current) THEN {fail(x)}
     ELSE
       LET consumed == consumeOutputs(r.current, r.opportunities, r.state)
       IN IF Len(consumed.opportunities) = 0
          THEN {[send(x, EndResponse) EXCEPT !.status = "closed",
                                             !.run.status = "done",
                                             !.run.opportunities = consumed.opportunities,
                                             !.run.state = consumed.state]}
          ELSE
            LET toNode == Head(consumed.opportunities).to
                popped == [x EXCEPT !.run.opportunities = Tail(consumed.opportunities),
                                    !.run.state = consumed.state]
            IN IF toNode \notin nodeIds(r.board) THEN {fail(popped)}
               ELSE
                 LET result == visit(r.board, consumed.state, toNode)
                     type == result.descriptor.type
                     visited == [popped EXCEPT !.run.current = result,
                                               !.run.visits = Append(r.visits, result)]
                     call == [visit |-> Len(r.visits) + 1, node |-> result.descriptor.id,
                              type |-> type, inputs |-> result.inputs]
                 IN IF skip(result) THEN {visited}
                    ELSE IF type = "input"
                    THEN {[send(visited, InputPromiseResponse(result)) EXCEPT
                             !.status = "waiting"]}
                    ELSE IF type = "output"
                    THEN {send(visited, OutputResponse(result))}
                    ELSE IF type \notin DOMAIN r.handlers THEN {fail(visited)}
                    ELSE IF shouldInvokeHandler(type \in x.proxyNodes)
                    THEN {[send(visited, BeforehandlerResponse(result)) EXCEPT
                             !.invoked = Append(@, call),
                             !.run.current.outputsPromise =
                                IF settled.ok THEN "resolved" ELSE "rejected",
                             !.run.current.outputs = settled.outputs] :
                           settled \in handle(r.handlers[type], result.inputs)}
                    ELSE {[send(send(visited, BeforehandlerResponse(result)),
                                ProxyPromiseResponse(result)) EXCEPT
                             !.status = "waiting",
                             !.proxied = Append(@, [call EXCEPT !.inputs = result.inputs]
                                                     @@ [answered |-> FALSE,
                                                         outputs |-> Empty])]}

\* a proxy server that answers with the inputs of the request
ProxyServer_serve_echo(x) ==
  LET request == x.requests[Len(x.requests)]
      known == x.run.handlers
      call == [visit |-> 0, node |-> request.node, type |-> request.nodeType,
               inputs |-> request.values]
  IN IF request.nodeType \notin DOMAIN known THEN {fail(x)}
     ELSE {IF settled.ok
           THEN [send(x, ProxyResponse(request.node, request.values)) EXCEPT
                   !.status = "closed", !.invoked = Append(@, call)]
           ELSE [fail(x) EXCEPT !.invoked = Append(@, call)] :
           settled \in handle(known[request.nodeType], request.values)}

\* ProxyServer.serve: the handler of the node's type among the handlers of
\* the server's board runs with the inputs of the request, and its outputs
\* are the one proxy response; without handler, or when the handler
\* fails, the response is an error
ProxyServer_serve(x) ==
  LET request == x.requests[Len(x.requests)]
      known == x.run.handlers
      call == [visit |-> 0, node |-> request.node, type |-> request.nodeType,
               inputs |-> request.values]
  IN IF request.nodeType \notin DOMAIN known THEN {fail(x)}
     ELSE {IF settled.ok
           THEN [send(x, ProxyResponse(request.node, settled.outputs)) EXCEPT
                   !.status = "closed", !.invoked = Append(@, call)]
           ELSE [fail(x) EXCEPT !.invoked = Append(@, call)] :
           settled \in handle(known[request.nodeType], request.values)}

\* a request of the client
Request(type, node, nodeType, values) ==
  [type |-> type, node |-> node, nodeType |-> nodeType, values |-> values]

\* the messages the server sent in the exchange, in order
RECURSIVE concat(_)
concat(streams) ==
  IF streams = <<>> THEN <<>> ELSE Head(streams) \o concat(Tail(streams))

messages(x) == concat(x.streams) \o x.stream

\* the last message the server sent in the exchange
lastMessage(x) == messages(x)[Len(messages(x))]

\* the exchanges that are under way
open == {e \in ExchangeIds : exchanges[e].status \in {"serving", "waiting"}}

\* the variables that the exchanges leave alone
notProxy == <<run, bubble, web, trip, gen>>

\* the state in which only the exchanges of the proxy protocol act
InitProxy ==
  /\ Still
  /\ NoWeb
  /\ NoTrip
  /\ exchanges \in [ExchangeIds -> Exchanges]
  /\ NoGen

\* a client that asks again while the server answers
RunClient_run_again ==
  /\ \E e \in ExchangeIds :
       LET x == exchanges[e]
       IN /\ x.kind = "run"
          /\ x.status \in {"open", "serving"}
          /\ Len(x.requests) < 2
          /\ exchanges' = [exchanges EXCEPT ![e] =
               [x EXCEPT !.status = "serving",
                         !.requests = Append(@, Request("run", "", "", Empty))]]
  /\ UNCHANGED notProxy

\* the client asks the server to run the board
RunClient_run ==
  /\ \E e \in ExchangeIds :
       LET x == exchanges[e]
       IN /\ x.kind = "run"
          /\ x.status = "open"
          /\ exchanges' = [exchanges EXCEPT ![e] =
               [x EXCEPT !.status = "serving",
                         !.requests = Append(@, Request("run", "", "", Empty))]]
  /\ UNCHANGED notProxy

\* the server runs the board up to its next message, or up to the next
\* visit
RunServer_serve ==
  /\ \E e \in ExchangeIds :
       LET x == exchanges[e]
       IN /\ x.kind = "run"
          /\ x.status = "serving"
          /\ \E y \in RunServer_step(x) : exchanges' = [exchanges EXCEPT ![e] = y]
  /\ UNCHANGED notProxy

\* the client answers the request for input: the inputs are the outputs of
\* the input node
RunClient_input ==
  /\ \E e \in ExchangeIds, inputs \in ClientInputs :
       LET x == exchanges[e]
       IN /\ x.kind = "run"
          /\ x.status = "waiting"
          /\ lastMessage(x).type = "input"
          /\ exchanges' = [exchanges EXCEPT ![e] =
               [x EXCEPT !.status = "serving",
                         !.requests = Append(@, Request("input", lastMessage(x).node, "", inputs)),
                         !.run.current.outputsPromise = "resolved",
                         !.run.current.outputs = inputs]]
  /\ UNCHANGED notProxy

\* the client answers the proxy message with the outputs of its own
\* handler: they are the outputs of the visit
RunClient_proxy ==
  /\ \E e \in ExchangeIds, outputs \in ClientOutputs :
       LET x == exchanges[e]
       IN /\ x.kind = "run"
          /\ x.status = "waiting"
          /\ lastMessage(x).type = "proxy"
          /\ exchanges' = [exchanges EXCEPT ![e] =
               [x EXCEPT !.status = "serving",
                         !.requests = Append(@, Request("proxy", lastMessage(x).node, "", outputs)),
                         !.proxied[Len(x.proxied)].answered = TRUE,
                         !.proxied[Len(x.proxied)].outputs = outputs,
                         !.run.current.outputsPromise = "resolved",
                         !.run.current.outputs = outputs]]
  /\ UNCHANGED notProxy

\* ProxyClient.proxy, first half: the request with the node and the inputs
ProxyClient_proxy ==
  /\ \E e \in ExchangeIds, type \in ProxiedTypes, inputs \in ProxiedInputs :
       LET x == exchanges[e]
       IN /\ x.kind = "proxy"
          /\ x.status = "open"
          /\ exchanges' = [exchanges EXCEPT ![e] =
               [x EXCEPT !.status = "serving",
                         !.requests = Append(@, Request("proxy", "id", type, inputs))]]
  /\ UNCHANGED notProxy

\* the proxy server answers the request
ProxyServer_respond ==
  /\ \E e \in ExchangeIds :
       LET x == exchanges[e]
       IN /\ x.kind = "proxy"
          /\ x.status = "serving"
          /\ \E y \in ProxyServer_serve(x) : exchanges' = [exchanges EXCEPT ![e] = y]
  /\ UNCHANGED notProxy

\* ProxyClient.proxy, second half: the outputs of the proxy response are
\* returned; an error response makes it throw
ProxyClient_return ==
  /\ \E e \in ExchangeIds :
       LET x == exchanges[e]
       IN /\ x.kind = "proxy"
          /\ x.status = "closed"
          /\ x.returned = <<>>
          /\ lastMessage(x).type = "proxy"
          /\ exchanges' = [exchanges EXCEPT ![e] =
               [x EXCEPT !.returned = <<lastMessage(x).values>>]]
  /\ UNCHANGED notProxy

\* the transport of every exchange fails when one does
transport_error_shared ==
  /\ \E e \in ExchangeIds : exchanges[e].status = "serving"
  /\ exchanges' = [e \in ExchangeIds |->
                     IF exchanges[e].status \in {"serving", "waiting"}
                     THEN [fail(exchanges[e]) EXCEPT !.failed = TRUE,
                                                     !.peers = open \ {e}]
                     ELSE exchanges[e]]
  /\ UNCHANGED notProxy

\* the transport of an exchange fails while the server answers a request:
\* the response ends with an error and the exchange is over
transport_error ==
  /\ \E e \in ExchangeIds :
       /\ exchanges[e].status = "serving"
       /\ exchanges' = [exchanges EXCEPT ![e] =
            [fail(exchanges[e]) EXCEPT !.failed = TRUE, !.peers = open \ {e}]]
  /\ UNCHANGED notProxy

NextProxy ==
  \/ RunClient_run
  \/ RunServer_serve
  \/ RunClient_input
  \/ RunClient_proxy
  \/ ProxyClient_proxy
  \/ ProxyServer_respond
  \/ ProxyClient_return
  \/ transport_error

ProxySpec == InitProxy /\ [][NextProxy]_vars

\* ------------------------------------------------------------------------
\* Properties
\* ------------------------------------------------------------------------

edge(i) == board.edges[i]

\* edge i names its ports and no other edge feeds the same input of its target
solelyFed(i) ==
  /\ edge(i).in # NoPort
  /\ edge(i).out \notin {NoPort, "*"}
  /\ \A j \in DOMAIN board.edges :
       (j # i /\ edge(j).to = edge(i).to) =>
         (edge(j).in # edge(i).in /\ edge(j).out # "*")

Last(s) == s[Len(s)]

visitIds == [k \in DOMAIN visits |-> visits[k].descriptor.id]

eventsOf(type) == FilterSeq(events, {e \in Range(events) : e.type = type})

callsOf(node) == FilterSeq(invoked, {c \in Range(invoked) : c.node = node})

visitsOf(node) ==
  FilterSeq(visits, {v \in Range(visits) : v.descriptor.id = node /\ ~skip(v)})

C2_ConstantsStay ==
  \A i \in DOMAIN board.edges :
    (edge(i).constant /\ sent[i] # <<>>) =>
      /\ edgeState.constants[i] = <<Last(sent[i])>>
      /\ (pc = "visit" /\ edge(i).to = current.descriptor.id /\ solelyFed(i))
         => /\ edge(i).in \in DOMAIN current.inputs
            /\ current.inputs[edge(i).in] = Last(sent[i])[edge(i).out]

\* S ran once, P and Q were each visited twice with its value, and the run
\* was continued from a saved result
C2_Witness ==
  /\ board \in FanoutBoards
  /\ pc = "done"
  /\ runs = 2
  /\ Len(callsOf("S")) = 1
  /\ \A node \in {"P", "Q"} :
       /\ Len(visitsOf(node)) = 2
       /\ \A k \in 1..2 : visitsOf(node)[k].inputs = One("key", 7)

\* C3: in a chain the nodes are visited in chain order, each at most once,
\* and a completed run has visited all of them, none skipped, with exactly
\* one output event, that of the output node at the end.
C3_ChainInOrder ==
  board \in ChainBoards =>
    LET chain == [i \in DOMAIN board.nodes |-> board.nodes[i].id]
    IN /\ IsPrefix(visitIds, chain)
       /\ pc \notin {"error"}
       /\ pc = "done" =>
            /\ visitIds = chain
            /\ \A k \in DOMAIN visits : ~skip(visits[k])
            /\ Len(eventsOf("output")) = 1
            /\ eventsOf("output")[1].node = Last(chain)
            /\ eventsOf("output")[1].inputs = One("x", 1)

\* a chain of at least three nodes has run to completion
C3_Witness ==
  /\ board \in ChainBoards
  /\ Len(board.nodes) >= 3
  /\ pc = "done"
  /\ Len(visits) = Len(board.nodes)

C6_SkipLeavesEdgeState ==
  /\ [][skip(current) => (edgeState' = edgeState /\ sent' = sent)]_vars
  /\ [](\A i \in DOMAIN board.edges :
          (/\ skip(current)
           /\ pc \in {"visit", "advance"}
           /\ edge(i).to = current.descriptor.id
           /\ ~edge(i).constant)
          => sent[i] = received[i] \o edgeState.state[i])

\* a visit was skipped although one of its incoming edges had a value queued
C6_Witness ==
  /\ skip(current)
  /\ pc = "advance"
  /\ \E i \in DOMAIN board.edges :
       edge(i).to = current.descriptor.id /\ edgeState.state[i] # <<>>

\* C7: in the loop boards L runs with the counter 0, 1, ... and at most
\* threshold times; the output node is visited, not skipped, only with
\* the threshold as its value and after L has run threshold times; a
\* completed run has exactly one output event.
C7_LoopEndsAtThreshold ==
  board \in LoopBoards =>
    LET threshold == nodes(board, "L").configuration["limit"]
        calls == callsOf("L")
    IN /\ Len(calls) <= threshold
       /\ \A k \in DOMAIN calls :
            "n" \in DOMAIN calls[k].inputs /\ calls[k].inputs["n"] = k - 1
       /\ \A k \in DOMAIN visits :
            (visits[k].descriptor.id = "Out" /\ ~skip(visits[k])) =>
              /\ visits[k].inputs = One("result", threshold)
              /\ Len(calls) = threshold
       /\ Len(eventsOf("output")) <= 1
       /\ pc # "error"
       /\ pc = "done" => (Len(calls) = threshold /\ Len(eventsOf("output")) = 1)

\* a loop with a threshold of at least two has run to completion
C7_Witness ==
  /\ board \in LoopBoards
  /\ pc = "done"
  /\ Len(callsOf("L")) >= 2
  /\ Len(eventsOf("output")) = 1

C9_ConfigurationSatisfies ==
  \A k \in DOMAIN visits :
    LET v == visits[k]
    IN \A p \in DOMAIN v.descriptor.configuration :
         /\ p \notin Range(v.missingInputs)
         /\ p \in DOMAIN v.inputs
         /\ (\A i \in DOMAIN board.edges :
               edge(i).to = v.descriptor.id =>
                 (sent[i] = <<>> \/ (edge(i).in # p /\ edge(i).out # "*")))
            => v.inputs[p] = v.descriptor.configuration[p]

\* a visit was not skipped although nothing was delivered for an input that
\* a non-optional edge requires: the configuration has it
C9_Witness ==
  \E k \in DOMAIN visits :
    \E i \in DOMAIN board.edges :
      /\ edge(i).to = visits[k].descriptor.id
      /\ ~edge(i).optional
      /\ sent[i] = <<>>
      /\ edge(i).in \in DOMAIN visits[k].descriptor.configuration
      /\ ~skip(visits[k])
      /\ visits[k].inputs[edge(i).in] = 5

\* the handler of the first kit, Core first, that has one for the type
firstMatch(type) ==
  LET kits == <<Core>> \o board.kits
      first == CHOOSE k \in DOMAIN kits :
                 /\ type \in DOMAIN kits[k].handlers
                 /\ \A j \in 1..(k - 1) : type \notin DOMAIN kits[j].handlers
  IN kits[first].handlers[type]

\* C10: the handler invoked for a visit is that of the first kit, Core
\* first and then the kits of the board in order, that has a handler for
\* the type of the node.
C10_FirstRegistryWins ==
  \A k \in DOMAIN invoked :
    invoked[k].handler = firstMatch(nodes(board, invoked[k].node).type)

\* the handler calls made for the k-th visit
callsAt(k) == {j \in DOMAIN invoked : invoked[j].visit = k}

ConfigurationErrors ==
  {"No entry node found in graph.", "No node found for id", "No handler for node type"}

\* a step that ends the run with a configuration error: one of the errors
\* above, or the error of a slot node, whose handler throws for the name of
\* no slot
configurationError ==
  /\ pc # "error"
  /\ pc' = "error"
  /\ \/ error' \in ConfigurationErrors
     \/ error' = "handler" /\ current.descriptor.type = "slot"

C13_NoEntryFailsAtStart ==
  (entries(board) = <<>> /\ pc # "init") =>
    /\ pc = "error"
    /\ error = "No entry node found in graph."
    /\ visits = <<>>
    /\ events = <<>>
    /\ invoked = <<>>
    /\ edgeState = MachineEdgeState(board)

\* the run of a graph with nodes, all of them with incoming edges, has
\* ended with the error of start()
C13_Witness ==
  /\ board.nodes # <<>>
  /\ \A n \in nodeIds(board) : heads(board, n) # <<>>
  /\ pc = "error"
  /\ error = "No entry node found in graph."

\* some edge of the graph names a node that the graph does not have
dangling(graph) ==
  \E e \in Range(graph.edges) : e.from \notin nodeIds(graph) \/ e.to \notin nodeIds(graph)

C15_NoHandlerIsFatal ==
  /\ [][(/\ pc = "visit"
         /\ ~skip(current)
         /\ current.descriptor.type \notin {"input", "output"}
         /\ current.descriptor.type \notin DOMAIN handlersFromBoard(board))
        => /\ pc' = "error"
           /\ error' = "No handler for node type"
           /\ invoked' = invoked
           /\ pending' = pending
           /\ visits' = visits
           /\ edgeState' = edgeState]_vars
  /\ [](error = "No handler for node type" => (pc = "error" /\ callsAt(Len(visits)) = {}))
  /\ [][error = "No handler for node type" => FALSE]_vars

\* the run has ended at a node without handler that has outgoing edges,
\* after an earlier visit
C15_Witness ==
  /\ pc = "error"
  /\ error = "No handler for node type"
  /\ Len(visits) >= 2
  /\ current.newOpportunities # <<>>
  /\ invoked = <<>>

\* the beforehandler event of the k-th visit
beforehandlerAt(k) ==
  LET n == Cardinality({j \in 1..k : ~skip(visits[j])
                                      /\ visits[j].descriptor.type \notin {"input", "output"}})
  IN eventsOf("beforehandler")[n]

\* C16: in the step that dispatches the beforehandler event of a visit, a
\* cancelled event means no handler call and the outputs of the listener as
\* the resolved outputs of the visit, which next() then delivers; an event
\* that was not cancelled means one handler call with the inputs of the
\* visit, whatever outputs a listener supplied; no visit ever has a second
\* call.
C16_VetoReplacesHandler ==
  /\ [][Len(eventsOf("beforehandler")') > Len(eventsOf("beforehandler")) =>
          LET event == Last(events')
          IN /\ event.node = current.descriptor.id
             /\ event.inputs = current'.inputs
             /\ current.inputs = without(current'.inputs, {"parent"})
             /\ IF event.canceled
                THEN /\ invoked' = invoked
                     /\ pending' = pending
                     /\ current'.outputsPromise = "resolved"
                     /\ current'.outputs = event.outputs
                ELSE /\ invoked' = Append(invoked, Last(invoked'))
                     /\ Last(invoked').visit = Len(visits)
                     /\ Last(invoked').node = current.descriptor.id
                     /\ Last(invoked').inputs = current'.inputs
                     /\ Last(invoked').handler = handlers[current.descriptor.type]
                     /\ pending' = {Last(invoked')}
                     /\ current'.outputsPromise = "pending"]_vars
  /\ [](\A k \in DOMAIN visits : Cardinality(callsAt(k)) <= 1)
  /\ [][(pc = "advance" /\ pc' \in {"visit", "done"} /\ ~skip(current)
         /\ current.descriptor.type \notin {"input", "output", "$empty"}
         /\ beforehandlerAt(Len(visits)).canceled)
        => /\ callsAt(Len(visits)) = {}
           /\ \A i \in DOMAIN board.edges :
                edge(i).from = current.descriptor.id =>
                  sent'[i] = sent[i] \o carried(edge(i), beforehandlerAt(Len(visits)).outputs)]_vars

\* the run has completed after a listener cancelled the event of R and
\* supplied outputs that reached the output node, with no handler call
C16_Witness ==
  /\ pc = "done"
  /\ callsOf("R") = <<>>
  /\ \E k \in DOMAIN events :
       /\ events[k].type = "beforehandler"
       /\ events[k].canceled
       /\ events[k].outputs = One("hello", 34)
  /\ eventsOf("output") # <<>>
  /\ Last(eventsOf("output")).inputs = One("text", 34)

\* C17: while the run is suspended at an input node, whose visit was not
\* skipped, no visit is produced and nothing is delivered; the only step is
\* the caller's, and the values it supplies are the resolved outputs of the
\* visit; the next() that follows delivers them along the outgoing edges of
\* the node.
C17_InputSuspends ==
  /\ [](pc = "input" =>
          (current.descriptor.type = "input" /\ ~skip(current) /\ pending = {}))
  /\ [][pc = "input" =>
          /\ pc' = "advance"
          /\ visits' = visits
          /\ edgeState' = edgeState
          /\ sent' = sent
          /\ Last(events').type = "input"
          /\ Last(events').node = current.descriptor.id
          /\ current'.outputsPromise = "resolved"
          /\ current'.outputs = Last(events').outputs]_vars
  /\ [][(pc = "visit" /\ ~skip(current) /\ current.descriptor.type = "input") =>
          (pc' = "input" /\ history' = history /\ edgeState' = edgeState)]_vars
  /\ [][(pc = "advance" /\ pc' # "advance" /\ ~skip(current)
         /\ current.descriptor.type = "input")
        => /\ Last(eventsOf("input")).node = current.descriptor.id
           /\ \A i \in DOMAIN board.edges :
                edge(i).from = current.descriptor.id =>
                  sent'[i] = sent[i] \o carried(edge(i), Last(eventsOf("input")).outputs)]_vars

\* the caller supplied hello at the input node and the value was delivered
\* to the next node
C17_Witness ==
  /\ \E k \in DOMAIN events :
       events[k].type = "input" /\ events[k].node = "I" /\ events[k].outputs = One("hello", 21)
  /\ \E i \in DOMAIN board.edges :
       edge(i).from = "I" /\ sent[i] = <<One("hello", 21)>>
  /\ \E k \in DOMAIN visits :
       visits[k].descriptor.id = "R" /\ visits[k].inputs = One("hello", 21)

\* the handler calls whose graph is running
running == {call \in pending : call.sub.status = "running"}

requested == requests' # requests

\* C18: an input whose name has a value in the cache keeps that value in
\* the cache, and a request for the name is answered with it without asking
\* the caller or the resolver.
C18_CachedInputsNotRequestedAgain ==
  [][\A name \in Names :
       (name \in DOMAIN cache /\ cache[name] # Undefined) =>
         /\ name \in DOMAIN cache'
         /\ cache'[name] = cache[name]
         /\ (requested /\ Last(requests').name = name) =>
              /\ Last(requests').value = cache[name]
              /\ ~Last(requests').caller
              /\ ~Last(requests').resolver]_vars

\* an input was requested twice: the caller was asked the first time and
\* the second request was answered from the cache
C18_Witness ==
  \E j, k \in DOMAIN requests :
    /\ j < k
    /\ requests[j].name = requests[k].name
    /\ requests[j].caller
    /\ ~requests[k].caller
    /\ ~requests[k].resolver
    /\ requests[k].value = requests[j].value

\* the request made in this step got no value: the caller supplied nothing
\* and the resolver of the context, which is there, neither
refused ==
  /\ requested
  /\ context.requestInput
  /\ Last(requests').resolver
  /\ Last(requests').value = Undefined

\* C19, as stated: when the resolver supplies no value for a requested
\* input the read fails with the error that names the input.
C19_RefusalIsFatal ==
  [][refused => (reader'.status = "thrown" /\ reader'.error = Last(requests').name)]_vars

\* C19, amended: when the resolver supplies no value for a requested input,
\* the read fails with the error that names the input if the schema of the
\* input has no default, and goes on with the default as the value of the
\* input if it has one.
C19_RefusalWithoutDefaultIsFatal ==
  [][refused =>
       LET name == Last(requests').name
       IN IF name \in DOMAIN reader.default
          THEN /\ reader'.status = "reading"
               /\ reader'.newOutputs[name] = reader.default[name]
          ELSE /\ reader'.status = "thrown"
               /\ reader'.error = name]_vars

\* the resolver was asked and supplied nothing, and the read has failed
\* with the error that names the input
C19_Witness ==
  /\ reader.status = "thrown"
  /\ context.requestInput
  /\ requests # <<>>
  /\ Last(requests).resolver
  /\ Last(requests).value = Undefined
  /\ reader.error = Last(requests).name

\* the handler call of pending' that is call, one step on
after(call) ==
  {later \in pending' : later.visit = call.visit /\ later.node = call.node}

\* the graph that call runs takes a step
steps(call) == \E later \in after(call) : later.sub # call.sub

boundBy(call) == without(call.inputs, {"board", "graph"})

\* C22: a lambda node runs no graph, and when the capability it made is
\* invoked, the outputs of an input node of the graph that is run are the
\* inputs of the invocation with the inputs that the lambda node bound
\* over them.
C22_BoundArgsReachSubgraph ==
  /\ \A k \in DOMAIN invoked :
       invoked[k].handler.type = "lambda" => invoked[k].sub.status = "none"
  /\ \A call \in pending :
       (/\ board \in LambdaBoards
        /\ call.node = "V"
        /\ callsOf("L") # <<>>
        /\ Last(callsOf("L")).handler.type = "lambda"
        /\ call.sub.status # "none"
        /\ call.sub.current.descriptor.type = "input")
       => call.sub.current.outputs =
            Merge(without(call.inputs, {"board"}), boundBy(Last(callsOf("L"))))

\* the visits of output nodes, not skipped, that the run of a handler call
\* has made
outputVisits(call) ==
  {k \in DOMAIN call.sub.visits :
     call.sub.visits[k].descriptor.type = "output" /\ ~skip(call.sub.visits[k])}

\* C30: the run that runOnce drives ends with its first visit of an output
\* node: that visit is its last, the outputs it returns are the inputs of
\* that visit, and once it has ended it makes no step, whatever
\* opportunities it has left; the handler call that ran it settles with
\* these outputs.
C30_RunOnceEndsAtFirstOutput ==
  /\ [](\A call \in pending :
          /\ call.sub.status = "running" => outputVisits(call) = {}
          /\ call.sub.status = "done" =>
               /\ outputVisits(call) \subseteq {Len(call.sub.visits)}
               /\ outputVisits(call) # {} => call.sub.outputs = Last(call.sub.visits).inputs
               /\ outputVisits(call) = {} =>
                    (call.sub.outputs = Empty /\ call.sub.opportunities = <<>>))
  /\ [][\A call \in pending :
          call.sub.status = "done" => \A later \in after(call) : later.sub = call.sub]_vars
  /\ [][\A call \in pending \ pending' :
          (call.sub.status = "done" /\ pending' \subseteq pending) =>
            (current'.outputsPromise = "resolved" /\ current'.outputs = call.sub.outputs)]_vars

\* the graph that V ran has ended at its first output node, P, with the
\* key P had got as its outputs and three opportunities left, one of them
\* leading to its other output node
C30_Witness ==
  \E call \in pending :
    /\ call.node = "V"
    /\ call.sub.status = "done"
    /\ Last(call.sub.visits).descriptor.id = "P"
    /\ call.sub.outputs = One("key", 7)
    /\ Len(call.sub.opportunities) = 3
    /\ \E i \in DOMAIN call.sub.opportunities : call.sub.opportunities[i].to = "Q"

\* C28: a call of RunResult.reply sends nothing when the message of the
\* RunResult carries no id, and else sends one reply that has the id and the
\* type of that message, and the data of the call
C28_ReplyCarriesIdAndType ==
  \A k \in DOMAIN replies :
    LET call == replies[k]
        message == results[call.to]
    IN IF message.id = Undefined
       THEN call.sent = <<>>
       ELSE /\ Len(call.sent) = 1
            /\ call.sent[1].id = message.id
            /\ call.sent[1].type = message.type
            /\ call.sent[1].data = call.data

\* two messages with different ids and types are with the caller; the one
\* without id was replied to first and nothing was sent, the reply to the
\* other has its id and type
C28_Witness ==
  /\ Len(results) = 2
  /\ results[1].id = Undefined
  /\ results[2].id = 2
  /\ results[1].type # results[2].type
  /\ Len(replies) = 2
  /\ replies[1].to = 1
  /\ replies[1].sent = <<>>
  /\ replies[2].to = 2
  /\ replies[2].sent = <<[id |-> 2, data |-> 9, type |-> results[2].type]>>

\* C29: once a board and the board made from its serialization have both
\* run with the same inputs, the two runs have made the same visits and
\* have the same outputs
C29_RoundTripRunsAlike ==
  (original.run.status \in {"done", "error"} /\ copy.status \in {"done", "error"})
    => /\ copy.visits = original.run.visits
       /\ copy.outputs = original.run.outputs

\* the exchanges in which a server runs a board
runExchanges == {e \in ExchangeIds : exchanges[e].kind = "run"}

\* the visits of the run of an exchange that were not skipped and whose
\* node type is one of types
visitsOfTypes(x, types) ==
  {i \in DOMAIN x.run.visits :
     /\ ~skip(x.run.visits[i])
     /\ x.run.visits[i].descriptor.type \in types}

\* the proxy messages among the messages of an exchange
proxyMessages(x) == SelectSeq(messages(x), LAMBDA m : m.type = "proxy")

\* no handler is invoked for a visit of a proxied node type; each of the
\* given visits has one proxy message, with the node and the inputs of the
\* visit; until the client has answered it, it is the last message and the
\* run has made no further visit; and the outputs of the answer are the
\* outputs of the visit
toClient(e, proxiedVisits) ==
  LET x == exchanges[e]
  IN /\ \A k \in DOMAIN x.invoked : x.invoked[k].type \notin x.proxyNodes
     /\ Len(x.proxied) = Cardinality(proxiedVisits)
     /\ Len(proxyMessages(x)) = Len(x.proxied)
     /\ \A k \in DOMAIN x.proxied :
          LET p == x.proxied[k]
          IN /\ p.visit \in proxiedVisits
             /\ \A j \in DOMAIN x.proxied : x.proxied[j].visit = p.visit => j = k
             /\ \A j \in DOMAIN x.invoked : x.invoked[j].visit # p.visit
             /\ proxyMessages(x)[k] =
                  Message("proxy", x.run.visits[p.visit].descriptor.id,
                          x.run.visits[p.visit].inputs)
             /\ ~p.answered =>
                  /\ x.status = "waiting"
                  /\ Len(x.run.visits) = p.visit
                  /\ k = Len(x.proxied)
                  /\ x.stream = <<>>
                  /\ lastMessage(x) = proxyMessages(x)[k]
             /\ (p.answered /\ Len(x.run.visits) = p.visit) =>
                  /\ x.run.current.outputsPromise = "resolved"
                  /\ x.run.current.outputs = p.outputs

\* C23, as claimed: on the server every visit of a proxied node type goes
\* to the client in this way
C23_ProxiedVisitGoesToClient ==
  \A e \in runExchanges :
    toClient(e, visitsOfTypes(exchanges[e], exchanges[e].proxyNodes))

\* C23: on the server every visit of a proxied node type for which the
\* server has a handler goes to the client in this way, and the handler is
\* not invoked
C23_ProxiedVisitWithHandlerGoesToClient ==
  \A e \in runExchanges :
    toClient(e, visitsOfTypes(exchanges[e],
                         exchanges[e].proxyNodes \cap DOMAIN exchanges[e].run.handlers))

\* the run of a board whose reverser is proxied is over: no handler was
\* invoked, the client was asked once, with the inputs of the visit, and
\* what it answered has reached the output node
C23_Witness ==
  \E e \in runExchanges :
    LET x == exchanges[e]
    IN /\ x.proxyNodes = {"reverser"}
       /\ x.run.status = "done"
       /\ x.invoked = <<>>
       /\ "reverser" \in DOMAIN x.run.handlers
       /\ proxyMessages(x) = <<Message("proxy", "R", One("hello", 12))>>
       /\ x.proxied[1].outputs = One("hello", 43)
       /\ Message("output", "Out", One("text", 43)) \in Range(messages(x))

\* C24: every message of a response stream is of one of the six types; a
\* stream that is over ends with an input, proxy, error or end message and
\* has only output and beforehandler messages before it; a stream that is
\* not over has only output and beforehandler messages; and no stream is
\* under way unless a request is unanswered
C24_OnlyLastMessagesEndStreams ==
  \A e \in ExchangeIds :
    LET x == exchanges[e]
    IN /\ \A m \in Range(messages(x)) :
            m.type \in {"output", "beforehandler", "input", "proxy", "error", "end"}
       /\ \A k \in DOMAIN x.streams :
            LET stream == x.streams[k]
            IN /\ stream # <<>>
               /\ stream[Len(stream)].type \in {"input", "proxy", "error", "end"}
               /\ \A j \in 1..(Len(stream) - 1) :
                    stream[j].type \in {"output", "beforehandler"}
       /\ \A j \in DOMAIN x.stream : x.stream[j].type \in {"output", "beforehandler"}
       /\ Len(x.streams) <= Len(x.requests)
       /\ x.stream # <<>> => Len(x.streams) < Len(x.requests)

\* a run asked for input, then announced a node and asked the client to
\* run it, then sent an output and the end in one stream; beside it a run sent a
\* beforehandler message and has not ended its stream
C24_Witness ==
  \E e, f \in ExchangeIds :
    /\ [k \in DOMAIN exchanges[e].streams |->
          [j \in DOMAIN exchanges[e].streams[k] |-> exchanges[e].streams[k][j].type]]
         = << <<"input">>, <<"beforehandler", "proxy">>, <<"output", "end">> >>
    /\ exchanges[f].stream = <<Message("beforehandler", "A", Empty)>>

\* the requests of an exchange that have no response stream that is over
outstanding(x) == Len(x.requests) - Len(x.streams)

\* C25: an exchange has at most one request without a finished response;
\* a step changes one exchange and leaves every other as it is; and an
\* exchange whose server answers a request has a step to take, whatever
\* the other exchanges do
C25_OneOutstandingAndIndependent ==
  [][\A e \in ExchangeIds :
       /\ outstanding(exchanges'[e]) \in {0, 1}
       /\ exchanges'[e] # exchanges[e] =>
            \A f \in ExchangeIds \ {e} : exchanges'[f] = exchanges[f]
       /\ (exchanges'[e].kind = "run" /\ exchanges'[e].status = "serving") =>
            RunServer_step(exchanges'[e]) # {}
       /\ (exchanges'[e].kind = "proxy" /\ exchanges'[e].status = "serving") =>
            ProxyServer_serve(exchanges'[e]) # {}]_vars

\* one exchange waits for the answer to its proxy message, with no request
\* outstanding, while the other has gone from its request to its end
C25_Witness ==
  \E e, f \in ExchangeIds :
    /\ e # f
    /\ exchanges[e].status = "waiting"
    /\ lastMessage(exchanges[e]).type = "proxy"
    /\ outstanding(exchanges[e]) = 0
    /\ exchanges[f].kind = "run"
    /\ exchanges[f].run.status = "done"
    /\ Len(exchanges[f].requests) = 2

\* C26: when the transport of an exchange fails, that exchange is over and
\* its last message is an error, and every other exchange is as it was;
\* a failed exchange stays over with the error as its last message
C26_TransportErrorEndsOneExchange ==
  [][\A e \in ExchangeIds :
       /\ (~exchanges[e].failed /\ exchanges'[e].failed) =>
            \A f \in ExchangeIds \ {e} : exchanges'[f] = exchanges[f]
       /\ exchanges'[e].failed =>
            /\ exchanges'[e].status = "closed"
            /\ exchanges'[e].stream = <<>>
            /\ lastMessage(exchanges'[e]) = ErrorResponse]_vars

\* the transport of one exchange failed while the other was under way, and
\* the other has since run to its end, with its output
C26_Witness ==
  \E e, f \in ExchangeIds :
    /\ exchanges[e].failed
    /\ f \in exchanges[e].peers
    /\ ~exchanges[f].failed
    /\ exchanges[f].run.status = "done"
    /\ lastMessage(exchanges[f]) = EndResponse
    /\ Message("output", "Out", One("text", 21)) \in Range(messages(exchanges[f]))

\* the exchanges of a proxy client with a proxy server
proxyExchanges ==
  {e \in ExchangeIds : exchanges[e].kind = "proxy" /\ exchanges[e].requests # <<>>}

\* C27: when the server has a handler for the type of the node and the
\* transport works, the response of the proxy server is one proxy message
\* with the outputs of that handler for the inputs of the request and
\* nothing else, and ProxyClient.proxy returns these outputs
C27_ProxyReturnsHandlerOutputs ==
  \A e \in proxyExchanges :
    LET x == exchanges[e]
        request == x.requests[1]
        server == handlersFromBoard(x.run.board)
    IN (request.nodeType \in DOMAIN server /\ ~x.failed) =>
         /\ x.status = "closed" =>
              /\ x.stream = <<>>
              /\ Len(x.streams) = 1
              /\ Len(x.streams[1]) = 1
              /\ x.streams[1][1].type = "proxy"
              /\ Resolved(x.streams[1][1].values)
                   \in handle(server[request.nodeType], request.values)
         /\ x.returned # <<>> =>
              /\ x.status = "closed"
              /\ x.returned = <<x.streams[1][1].values>>

\* the proxy client asked for a reverser node with hello = 12 and got
\* hello = 21
C27_Witness ==
  \E e \in proxyExchanges :
    /\ exchanges[e].requests = <<Request("proxy", "id", "reverser", One("hello", 12))>>
    /\ exchanges[e].returned = <<One("hello", 21)>>
    /\ exchanges[e].streams = << <<Message("proxy", "id", One("hello", 21))>> >>

\* ------------------------------------------------------------------------
\* The order of the opportunities
\* ------------------------------------------------------------------------

\* the opportunities start() queues: one per entry, in the order of entries
entryOpportunities ==
  [i \in DOMAIN entries(board) |-> EntryEdge(entries(board)[i])]

\* the opportunities that were ever queued once next() has consumed the
\* outputs of the first n visits: those of start(), then, visit by visit,
\* the outgoing edges of the visited node unless the visit was skipped
RECURSIVE queuedUpTo(_)
queuedUpTo(n) ==
  IF n = 0 THEN entryOpportunities
  ELSE queuedUpTo(n - 1)
         \o (IF skip(visits[n]) THEN <<>> ELSE tails(board, visits[n].descriptor.id))

\* the number of visits whose outputs next() has consumed
consumedVisits ==
  IF pc = "done" \/ error = "No node found for id" THEN Len(visits)
  ELSE IF visits = <<>> THEN 0 ELSE Len(visits) - 1

\* the number of opportunities next() has popped
poppedOpportunities ==
  IF error = "No node found for id" THEN Len(visits) + 1 ELSE Len(visits)

\* C33: the opportunities are a first-in first-out queue: the opportunities
\* ever queued are those of the entries, in entry order, followed, visit by
\* visit, by the outgoing edges of each visit that was not skipped, in the
\* order of the node's edges; the k-th of them led to the k-th visit, and
\* the queue holds exactly those behind the popped ones.
C33_OpportunitiesAreFifo ==
  (pc # "init" /\ error # "No entry node found in graph.") =>
    LET all == queuedUpTo(consumedVisits)
    IN /\ Len(all) >= poppedOpportunities
       /\ opportunities = SubSeq(all, poppedOpportunities + 1, Len(all))
       /\ \A k \in DOMAIN visits : all[k].to = visits[k].descriptor.id
       /\ pc = "done" => Len(all) = Len(visits)

\* a board with two entries has run to completion: the edges of the first
\* entry were queued behind the second entry, and the edges of the second
\* behind those of the first
C33_Witness ==
  /\ pc = "done"
  /\ Len(entries(board)) = 2
  /\ Len(visits) >= 6
  /\ tails(board, visits[1].descriptor.id) # <<>>
  /\ tails(board, visits[2].descriptor.id) # <<>>
  /\ visits[3].descriptor.id # visits[4].descriptor.id
  /\ visits[5].descriptor.id = visits[3].descriptor.id

\* the opportunities after next() has consumed the outputs of the current
\* visit, as the graph has them: the outgoing edges of the node of a visit
\* that was not skipped behind those already queued
queueAtPop ==
  IF skip(current) THEN opportunities
  ELSE opportunities \o tails(board, current.descriptor.id)

\* C34: no visit is left out for a node visited before and none is tried
\* again: every visit comes from one popped opportunity and is a visit of
\* its target; every opportunity next() pops, whatever was visited before,
\* gives one visit of its target if the graph has that node; and after a
\* skipped visit nothing is queued, so that its node is visited again only
\* for another opportunity that was queued.
C34_OneVisitPerPoppedOpportunity ==
  /\ [][visits' # visits =>
          /\ pc = "advance"
          /\ queueAtPop # <<>>
          /\ opportunities' = Tail(queueAtPop)
          /\ Len(visits') = Len(visits) + 1
          /\ SubSeq(visits', 1, Len(visits)) = visits
          /\ Last(visits').descriptor.id = Head(queueAtPop).to]_vars
  /\ [][(pc = "advance" /\ pc' # pc /\ error' # "handler") =>
          IF queueAtPop = <<>> THEN pc' = "done" /\ visits' = visits
          ELSE IF Head(queueAtPop).to \in nodeIds(board)
               THEN /\ pc' = "visit"
                    /\ Len(visits') = Len(visits) + 1
                    /\ Last(visits').descriptor.id = Head(queueAtPop).to
               ELSE pc' = "error" /\ visits' = visits]_vars
  /\ [][skip(current) =>
          \/ opportunities' = opportunities
          \/ opportunities # <<>> /\ opportunities' = Tail(opportunities)]_vars

\* a node was visited and skipped, and visited again, and not skipped, for
\* a later opportunity, and some node was visited three times
C34_Witness ==
  /\ \E j, k \in DOMAIN visits :
       /\ j < k
       /\ visits[j].descriptor.id = visits[k].descriptor.id
       /\ skip(visits[j])
       /\ ~skip(visits[k])
  /\ \E n \in nodeIds(board) :
       Cardinality({k \in DOMAIN visits : visits[k].descriptor.id = n}) >= 3

\* C35: the inputs of a visit are the configuration of its node overlaid
\* with the values wired from its incoming edges: they have the names of
\* both, a wired name has the wired value, also when the configuration has
\* the name, and a name of the configuration that was not wired has the
\* configured value; a handler is invoked with these inputs.
C35_WiredValuesOverrideConfiguration ==
  /\ [][visits' # visits =>
          LET v == Last(visits')
              node == v.descriptor
              collected == wire(heads(board, node.id),
                                getAvailableOutputs(edgeState', node.id))
          IN /\ DOMAIN v.inputs = (DOMAIN node.configuration) \cup (DOMAIN collected)
             /\ \A p \in DOMAIN collected : v.inputs[p] = collected[p]
             /\ \A p \in (DOMAIN node.configuration) \ (DOMAIN collected) :
                  v.inputs[p] = node.configuration[p]]_vars
  /\ [](\A k \in DOMAIN invoked :
          LET v == visits[invoked[k].visit]
          IN \A p \in (DOMAIN v.inputs) \ {"parent"} :
               p \in DOMAIN invoked[k].inputs /\ invoked[k].inputs[p] = v.inputs[p])

\* a handler was invoked with a wired value for a name that its node's
\* configuration has with another value, and with the configured value of
\* a name that was not wired
C35_Witness ==
  \E k \in DOMAIN invoked :
    LET configuration == visits[invoked[k].visit].descriptor.configuration
    IN \E p, q \in DOMAIN configuration :
         /\ \E i \in DOMAIN board.edges :
              /\ edge(i).to = invoked[k].node
              /\ edge(i).in = p
              /\ received[i] # <<>>
              /\ invoked[k].inputs[p] = Last(received[i])[edge(i).out]
         /\ invoked[k].inputs[p] # configuration[p]
         /\ invoked[k].inputs[q] = configuration[q]

\* C36: the inputs of a visit are wired from all the incoming edges of its
\* node: a name that some incoming edge with an available value feeds has
\* the value of the last such edge in the order of the graph's edges,
\* whichever edge the popped opportunity was.
C36_LastIncomingEdgeWins ==
  [][visits' # visits =>
       LET v == Last(visits')
           hs == heads(board, v.descriptor.id)
           outputEdges == getAvailableOutputs(edgeState', v.descriptor.id)
           outputs(k) == outputsOf(outputEdges, hs[k].from)
           feeds(k, p) ==
             IF hs[k].out = "*" THEN p \in DOMAIN outputs(k)
             ELSE /\ hs[k].out # NoPort
                  /\ hs[k].in = p
                  /\ hs[k].out \in DOMAIN outputs(k)
                  /\ outputs(k)[hs[k].out] # Null
           value(k, p) == IF hs[k].out = "*" THEN outputs(k)[p] ELSE outputs(k)[hs[k].out]
       IN \A p \in {hs[k].in : k \in DOMAIN hs}
                     \cup UNION {DOMAIN outputs(k) : k \in DOMAIN hs} :
            LET feeders == {k \in DOMAIN hs : feeds(k, p)}
            IN feeders # {} =>
                 /\ p \in DOMAIN v.inputs
                 /\ \E k \in feeders :
                      /\ \A j \in feeders : j <= k
                      /\ v.inputs[p] = value(k, p)]_vars

\* a node was visited for the opportunity of one incoming edge while a
\* later incoming edge from another node had another value for the same
\* input, and the visit has the value of the later edge
C36_Witness ==
  /\ pc = "visit"
  /\ ~skip(current)
  /\ \E i, j \in DOMAIN board.edges :
       /\ i < j
       /\ edge(i).to = current.descriptor.id
       /\ edge(j).to = current.descriptor.id
       /\ edge(i).in = edge(j).in
       /\ edge(i).from # edge(j).from
       /\ received[i] # <<>>
       /\ received[j] # <<>>
       /\ Last(received[i]) # Last(received[j])
       /\ current.inputs[edge(j).in] = Last(received[j])[edge(j).out]
       /\ Len(visits) >= 2
       /\ visits[Len(visits) - 1].descriptor.id = edge(j).from

\* the input names that the non-optional incoming edges of a node require
requiredOf(node) ==
  {edge(i).in : i \in {j \in DOMAIN board.edges :
                         /\ edge(j).to = node
                         /\ ~edge(j).optional
                         /\ edge(j).in # NoPort}}

\* C37: a visit is skipped exactly when it has missing inputs, which is
\* when a name that a non-optional incoming edge requires is not among its
\* inputs; only visits that are not skipped suspend the run at an input
\* node, give an output event or a beforehandler event, or have a handler
\* invoked, and a handler that is invoked receives every required name.
C37_OnlyCompleteVisitsRun ==
  /\ [](\A k \in DOMAIN visits :
          /\ skip(visits[k]) <=> visits[k].missingInputs # <<>>
          /\ skip(visits[k]) <=>
               ~(requiredOf(visits[k].descriptor.id) \subseteq DOMAIN visits[k].inputs)
          /\ Range(visits[k].missingInputs) =
               requiredOf(visits[k].descriptor.id) \ DOMAIN visits[k].inputs)
  /\ [](\A k \in DOMAIN invoked :
          /\ ~skip(visits[invoked[k].visit])
          /\ requiredOf(invoked[k].node) \subseteq DOMAIN invoked[k].inputs)
  /\ [](\A k \in DOMAIN events :
          IF events[k].type = "skip"
          THEN events[k].missingInputs # <<>>
          ELSE /\ events[k].missingInputs = <<>>
               /\ requiredOf(events[k].node) \subseteq DOMAIN events[k].inputs)
  /\ [](pc = "input" => ~skip(current))
  /\ [][(pc = "visit" /\ skip(current)) =>
          /\ invoked' = invoked
          /\ pending' = pending
          /\ pc' \notin {"input", "error"}
          /\ Last(events').type = "skip"]_vars

\* a run in which a visit was skipped has invoked a handler with the input
\* that a non-optional edge requires, was suspended at an input node and
\* has given an output event
C37_Witness ==
  /\ eventsOf("skip") # <<>>
  /\ eventsOf("input") # <<>>
  /\ eventsOf("output") # <<>>
  /\ \E k \in DOMAIN invoked :
       /\ requiredOf(invoked[k].node) # {}
       /\ \E j \in DOMAIN visits :
            /\ visits[j].descriptor.id = invoked[k].node
            /\ skip(visits[j])

\* C39: a named edge whose source output is null delivers no input: unless
\* another incoming edge feeds the same name, the name is among the inputs
\* of the visit only if the configuration has it, with the configured
\* value, and if the edge is not optional and the configuration does not
\* have the name, the name is reported missing and the visit is skipped.
C39_NullOutputIsAbsent ==
  [][visits' # visits =>
       LET v == Last(visits')
           configuration == v.descriptor.configuration
           hs == heads(board, v.descriptor.id)
           outputEdges == getAvailableOutputs(edgeState', v.descriptor.id)
           outputs(k) == outputsOf(outputEdges, hs[k].from)
           named(k) == hs[k].out \notin {NoPort, "*"} /\ hs[k].in # NoPort
           nullish(k) ==
             /\ named(k)
             /\ hs[k].out \in DOMAIN outputs(k)
             /\ outputs(k)[hs[k].out] = Null
           feeds(k, p) ==
             IF hs[k].out = "*" THEN p \in DOMAIN outputs(k)
             ELSE /\ named(k)
                  /\ hs[k].in = p
                  /\ hs[k].out \in DOMAIN outputs(k)
                  /\ outputs(k)[hs[k].out] # Null
       IN \A k \in DOMAIN hs :
            (nullish(k) /\ \A j \in DOMAIN hs : ~feeds(j, hs[k].in)) =>
              /\ hs[k].in \in DOMAIN v.inputs =>
                   /\ hs[k].in \in DOMAIN configuration
                   /\ v.inputs[hs[k].in] = configuration[hs[k].in]
              /\ (~hs[k].optional /\ hs[k].in \notin DOMAIN configuration) =>
                   /\ hs[k].in \in Range(v.missingInputs)
                   /\ skip(v)]_vars

\* a visit was skipped for an input whose only edge has a null value
\* queued
C39_Witness ==
  /\ pc = "visit"
  /\ skip(current)
  /\ \E i \in DOMAIN board.edges :
       /\ edge(i).to = current.descriptor.id
       /\ solelyFed(i)
       /\ edge(i).in \in Range(current.missingInputs)
       /\ edgeState.state[i] # <<>>
       /\ Head(edgeState.state[i])[edge(i).out] = Null

\* ------------------------------------------------------------------------
\* The results that next() has returned
\* ------------------------------------------------------------------------

\* the fields of the k-th result that next() returned, as a holder of the
\* result reads them: its opportunities are the one array that start()
\* made and that next() hands from result to result
fieldsOf(k) ==
  [descriptor |-> visits[k].descriptor,
   inputs |-> visits[k].inputs,
   missingInputs |-> visits[k].missingInputs,
   newOpportunities |-> visits[k].newOpportunities,
   opportunities |-> opportunities]

FairSpec ==
  /\ Spec
  /\ WF_vars(start)
  /\ WF_vars(TraversalMachineIterator_next)
  /\ WF_vars(run_skip)
  /\ WF_vars(run_input)
  /\ WF_vars(resume)
  /\ WF_vars(run_output)
  /\ WF_vars(run_noHandler)
  /\ WF_vars(run_handler)
  /\ WF_vars(runOnce_step)
  /\ WF_vars(settle)

\* the nodes that an edge leads to from a node of S
successors(graph, S) ==
  {graph.edges[i].to : i \in {j \in DOMAIN graph.edges : graph.edges[j].from \in S}}

\* the nodes reached from S by one to k edges
RECURSIVE reached(_, _, _)
reached(graph, S, k) ==
  IF k = 0 THEN {}
  ELSE successors(graph, S) \cup reached(graph, successors(graph, S), k - 1)

\* no node of the graph is reached from itself
acyclic(graph) ==
  \A n \in nodeIds(graph) : n \notin reached(graph, {n}, Len(graph.nodes))

\* the number of walks from an entry to a node of a graph without cycles
RECURSIVE walks(_, _)
walks(graph, n) ==
  LET hs == heads(graph, n)
      RECURSIVE sum(_)
      sum(k) == IF k = 0 THEN 0 ELSE sum(k - 1) + walks(graph, hs[k].from)
  IN IF n \notin nodeIds(graph) THEN 0
     ELSE IF hs = <<>> THEN 1
     ELSE sum(Len(hs))

\* C38: the run of a graph without cycles that is driven on reaches its
\* end: it completes unless it ends with an error, which is a rejected
\* handler result, a missing handler, an opportunity that leads to no node
\* or a graph without entry; there are no more visits
\* of a node than there are walks from the entries to it, and the run
\* completes exactly when next() finds no opportunity left after it has
\* consumed the outputs of the last visit.
C38_AcyclicRunCompletes ==
  /\ acyclic(board) => <>(pc = "done" \/ pc = "error")
  /\ [](pc = "error" =>
          error \in {"handler", "No handler for node type", "No node found for id",
                     "No entry node found in graph."})
  /\ [](acyclic(board) =>
          \A n \in nodeIds(board) :
            Cardinality({k \in DOMAIN visits : visits[k].descriptor.id = n})
              <= walks(board, n))
  /\ [][(pc' = "done" /\ pc # "done") => (pc = "advance" /\ queueAtPop = <<>>)]_vars
  /\ [][(pc = "advance" /\ pc' # pc /\ error' # "handler" /\ queueAtPop = <<>>) =>
          pc' = "done"]_vars

\* the run of a graph without cycles has completed after an input was
\* answered and a handler result resolved, with a node visited twice
C38_Witness ==
  /\ acyclic(board)
  /\ pc = "done"
  /\ error = ""
  /\ eventsOf("input") # <<>>
  /\ invoked # <<>>
  /\ \E j, k \in DOMAIN visits : j < k /\ visits[j].descriptor.id = visits[k].descriptor.id

\* ------------------------------------------------------------------------
\* asyncGen (breadboard-web/src/async-gen.ts): a callback that passes
\* values to next is iterated as an async generator
\* ------------------------------------------------------------------------

\* the longest callback, in statements
MaxStatements == 3

\* the values a callback passes to next
Values == {1, 2}

\* the statements of a callback: await next(v), next(v) whose promise is
\* not awaited, and an await of something else
AwaitNext(v) == [do |-> "await next", value |-> v]

CallNext(v) == [do |-> "next", value |-> v]

AwaitWork == [do |-> "await", value |-> Undefined]

Statements == {AwaitNext(v) : v \in Values} \cup {CallNext(1), AwaitWork}

\* the callbacks: async (next) => { statements }
Callbacks == UNION {[1..n -> Statements] : n \in 0..MaxStatements}

\* proceedToNext when it is the function that starts the callback; else
\* it is the number of the call of next whose promise it resolves
Starter == 0

\* a promise that is not settled
Unsettled == [settled |-> FALSE, value |-> Undefined]

\* the iterator that starts the callback when it is made
asyncIterator_eager(callback) ==
  [callback |-> callback,
   at |-> 1,
   producer |-> "working",
   awaited |-> 0,
   proceedToNext |-> Starter,
   resolved |-> {},
   waitForCallbackToCallNext |-> Unsettled,
   done |-> FALSE,
   consumer |-> "idle",
   requested |-> 0,
   passed |-> <<>>,
   yielded |-> <<>>,
   returned |-> <<>>,
   jobs |-> <<>>]

\* asyncGen(callback)[Symbol.asyncIterator](): the promise the iterator
\* waits for is made, nextCalled is its resolver, and proceedToNext is the
\* function that starts the callback; passed, yielded and returned are
\* history: the values given to next, the values the consumer got with
\* done false, and all results of the iterator's next()
asyncIterator(callback) ==
  [callback |-> callback,
   at |-> 1,
   producer |-> "unstarted",
   awaited |-> 0,
   proceedToNext |-> Starter,
   resolved |-> {},
   waitForCallbackToCallNext |-> Unsettled,
   done |-> FALSE,
   consumer |-> "idle",
   requested |-> 0,
   passed |-> <<>>,
   yielded |-> <<>>,
   returned |-> <<>>,
   jobs |-> <<>>]

\* nextCalled(value): the resolver of the promise the iterator waits for;
\* it does nothing once the promise is settled, and the consumer that
\* awaits the promise is continued in a job of its own
nextCalled(g, value) ==
  IF g.waitForCallbackToCallNext.settled THEN g
  ELSE [g EXCEPT !.waitForCallbackToCallNext = [settled |-> TRUE, value |-> value],
                 !.jobs = IF g.consumer = "waiting" THEN Append(@, "consumer") ELSE @]

\* next(result), the function the callback is given: nextCalled(result),
\* and proceedToNext becomes the resolver of the promise that is returned;
\* promises are named by the number of the call
next(g, result) ==
  [nextCalled(g, result) EXCEPT !.passed = Append(@, result),
                                !.proceedToNext = Len(g.passed) + 1]

\* the callback runs from its statement at to the next await, or to its
\* end, where its promise resolves and the reaction of then is queued
RECURSIVE callback(_)
callback(g) ==
  IF g.at > Len(g.callback)
  THEN [g EXCEPT !.producer = "returned", !.jobs = Append(@, "then")]
  ELSE LET statement == g.callback[g.at]
           rest == [g EXCEPT !.at = @ + 1]
       IN CASE statement.do = "await next" ->
                 [next(rest, statement.value) EXCEPT !.producer = "suspended",
                                                      !.awaited = Len(g.passed) + 1]
            [] statement.do = "next" -> callback(next(rest, statement.value))
            [] OTHER -> [rest EXCEPT !.producer = "working"]

\* proceedToNext && proceedToNext(): the first time the callback is
\* started; later the promise of the last call of next is resolved, which
\* continues the callback in a job of its own if it awaits that promise
proceedToNext(g) ==
  IF g.proceedToNext = Starter THEN callback([g EXCEPT !.producer = "running", !.at = 1])
  ELSE IF g.proceedToNext \in g.resolved THEN g
  ELSE [g EXCEPT !.resolved = @ \cup {g.proceedToNext},
                 !.jobs = IF g.producer = "suspended" /\ g.awaited = g.proceedToNext
                          THEN Append(@, "callback") ELSE @]

\* the end of the iterator's next() that leaves the settled promise in
\* place
iterator_return_samePromise(g) ==
  LET value == g.waitForCallbackToCallNext.value
  IN [g EXCEPT !.consumer = IF g.done THEN "finished" ELSE "idle",
               !.yielded = IF g.done THEN @ ELSE Append(@, value),
               !.returned = Append(@, [done |-> g.done, value |-> value])]

\* the iterator's next() after its await: a new promise is made to wait
\* for, and { done, value } is returned to the consumer, which ends the
\* iteration if done
iterator_return(g) ==
  LET value == g.waitForCallbackToCallNext.value
  IN [g EXCEPT !.waitForCallbackToCallNext = Unsettled,
               !.consumer = IF g.done THEN "finished" ELSE "idle",
               !.yielded = IF g.done THEN @ ELSE Append(@, value),
               !.returned = Append(@, [done |-> g.done, value |-> value])]

\* the variables that iterating a generator leaves alone
notGen == <<run, bubble, web, trip, exchanges>>

\* the state in which only a generator is iterated
InitGen ==
  /\ Still
  /\ NoWeb
  /\ NoTrip
  /\ NoProxy
  /\ \E c \in Callbacks : gen = asyncIterator(c)

\* the consumer, who has the result of its last call, calls the iterator's
\* next(), up to the await: proceedToNext is called, and the iterator
\* waits for the promise, going on in a job of its own if it is settled
iterator_next ==
  /\ gen.consumer = "idle"
  /\ gen.jobs = <<>>
  /\ LET g == proceedToNext([gen EXCEPT !.requested = @ + 1])
     IN gen' = [g EXCEPT !.consumer = "waiting",
                         !.jobs = IF g.waitForCallbackToCallNext.settled
                                  THEN Append(@, "consumer") ELSE @]
  /\ UNCHANGED notGen

\* the job that continues the iterator's next()
iterator_next_continue ==
  /\ gen.jobs # <<>>
  /\ Head(gen.jobs) = "consumer"
  /\ gen' = iterator_return([gen EXCEPT !.jobs = Tail(@)])
  /\ UNCHANGED notGen

\* the job that continues the callback after the promise of next resolved
\* or after what else it awaited
callback_continue ==
  /\ gen.jobs # <<>>
  /\ Head(gen.jobs) = "callback"
  /\ gen' = callback([gen EXCEPT !.jobs = Tail(@), !.producer = "running"])
  /\ UNCHANGED notGen

\* what the callback awaited besides next settles
callback_work ==
  /\ gen.producer = "working"
  /\ gen.jobs = <<>>
  /\ gen' = [gen EXCEPT !.jobs = <<"callback">>]
  /\ UNCHANGED notGen

\* callback(next).then(...): done is set and nextCalled(undefined)
callback_then ==
  /\ gen.jobs # <<>>
  /\ Head(gen.jobs) = "then"
  /\ gen' = nextCalled([gen EXCEPT !.jobs = Tail(@), !.done = TRUE,
                                   !.producer = "finished"],
                       Undefined)
  /\ UNCHANGED notGen

NextGen ==
  \/ iterator_next
  \/ iterator_next_continue
  \/ callback_continue
  \/ callback_work
  \/ callback_then

GenSpec == InitGen /\ [][NextGen]_vars

\* the callback awaits every call of next
awaitsEveryNext(c) == \A k \in DOMAIN c : c[k].do # "next"

\* the values the callback passes to next, in the order of its statements
passes(c) ==
  LET calls == FilterSeq(c, {st \in Range(c) : st.do # "await"})
  IN [k \in DOMAIN calls |-> calls[k].value]

\* C32: iterating the generator of a callback that awaits every call of
\* next gives the values passed to next, each once and in the order of the
\* calls: what was yielded is at every moment the values passed but
\* possibly the last; only the last result of the iterator has done, it has
\* no value, and when it is returned the callback has run to its end, its
\* promise has resolved and every value it passed was yielded.
C32_YieldsWhatIsPassed ==
  awaitsEveryNext(gen.callback) =>
    /\ IsPrefix(gen.passed, passes(gen.callback))
    /\ IsPrefix(gen.yielded, gen.passed)
    /\ Len(gen.passed) <= Len(gen.yielded) + 1
    /\ \A k \in DOMAIN gen.returned :
         IF gen.returned[k].done
         THEN k = Len(gen.returned) /\ gen.returned[k].value = Undefined
         ELSE gen.returned[k].value = passes(gen.callback)[k]
    /\ gen.done => gen.producer = "finished" /\ gen.at = Len(gen.callback) + 1
    /\ gen.consumer = "finished" =>
         /\ gen.done
         /\ gen.yielded = passes(gen.callback)
         /\ Len(gen.returned) = Len(gen.yielded) + 1

\* the iteration of a callback that awaits two calls of next, with different
\* values, and something else in between has ended
C32_Witness ==
  /\ gen # <<>>
  /\ awaitsEveryNext(gen.callback)
  /\ gen.consumer = "finished"
  /\ Len(gen.yielded) = 2
  /\ gen.yielded[1] # gen.yielded[2]
  /\ gen.callback[2] = AwaitWork

====
